---- MODULE Spec2Model ----
(***************************************************************************)
(* Session workflow of the proof-of-anchor frontend.                       *)
(*                                                                         *)
(* Two revisions of the AppContent component are modelled side by side:    *)
(*   variant = "sim"     frontend/src/App.tsx   (timers, string heuristic) *)
(*   variant = "ledger"  unnamed/part_006       (SolanaService calls and   *)
(*                                               the network analyzer)     *)
(* Strings are tuples of one-character strings, so that trim, toLowerCase  *)
(* and includes are computed the way the code computes them.  A nullable   *)
(* React state cell is <<>> (null) or <<v>>.                               *)
(***************************************************************************)
EXTENDS Integers, Sequences, FiniteSets, TLC

VARIABLES
    variant,               \* which AppContent revision this session runs
    connected,             \* useWallet().connected (publicKey is set with it)
    proofStatus,           \* useState<ProofStatus>("idle")
    proofHash,             \* useState<string>("")
    verificationResult,    \* useState<boolean | null>(null)
    projectData,           \* useState<... | null>(null)
    legitimacyAssessment,  \* useState<LegitimacyAssessment | null>(null)
    projectDomain,         \* useState<string>("")
    userVote,              \* useState<{isLegitimate, confidence} | null>(null)
    analyzedDomains,       \* useState<Set<string>>(new Set())
    isVoting,              \* CommunityVotingPanel local state
    gens,                  \* handleGenerateProof runs suspended at an await
    votes,                 \* handleVote runs suspended at their await
    verifs,                \* handleVerifyProof runs suspended at their await
    lastResult,            \* what the handler of the step just taken reported
    hist,                  \* history: what the session has done so far
    call,                  \* a function of the analysis layer under evaluation
    ret,                   \* what that function returned
    run                    \* an analysis in progress: its sub-calls started and finished

vars == <<variant, connected, proofStatus, proofHash, verificationResult,
          projectData, legitimacyAssessment, projectDomain, userVote,
          analyzedDomains, isVoting, gens, votes, verifs, lastResult, hist,
          call, ret, run>>

\* The cells of a function evaluation; a session leaves them alone.
fnvars == <<call, ret, run>>

(***************************************************************************)
(* Bounds of the model.                                                    *)
(***************************************************************************)
MaxGens == 2       \* handleGenerateProof runs in flight at once
MaxVotes == 1      \* handleVote runs in flight at once
MaxVerifs == 1     \* handleVerifyProof runs in flight at once

(***************************************************************************)
(* Strings.                                                                *)
(***************************************************************************)
Null == <<>>
Some(v) == <<v>>

UpperLetters == <<"A","B","C","D","E","F","G","H","I","J","K","L","M",
                  "N","O","P","Q","R","S","T","U","V","W","X","Y","Z">>
LowerLetters == <<"a","b","c","d","e","f","g","h","i","j","k","l","m",
                  "n","o","p","q","r","s","t","u","v","w","x","y","z">>

ToLowerChar(c) ==
    IF \E i \in 1..Len(UpperLetters) : UpperLetters[i] = c
    THEN LowerLetters[CHOOSE i \in 1..Len(UpperLetters) : UpperLetters[i] = c]
    ELSE c

\* String.prototype.toLowerCase
toLowerCase(s) == [i \in 1..Len(s) |-> ToLowerChar(s[i])]

IsWhiteSpace(c) == c \in {" ", "\t", "\n"}

RECURSIVE TrimStart(_)
TrimStart(s) ==
    IF s # <<>> /\ IsWhiteSpace(Head(s)) THEN TrimStart(Tail(s)) ELSE s

RECURSIVE TrimEnd(_)
TrimEnd(s) ==
    IF s # <<>> /\ IsWhiteSpace(s[Len(s)])
    THEN TrimEnd(SubSeq(s, 1, Len(s) - 1))
    ELSE s

\* String.prototype.trim
trim(s) == TrimEnd(TrimStart(s))

\* String.prototype.includes
includes(s, sub) ==
    \E i \in 0..(Len(s) - Len(sub)) : SubSeq(s, i + 1, i + Len(sub)) = sub

\* String.prototype.substring(from, to), 0-based, to exclusive
substring(s, from, to) ==
    LET hi == IF to < Len(s) THEN to ELSE Len(s)
        lo == IF from < hi THEN from ELSE hi
    IN  SubSeq(s, lo + 1, hi)

Min(a, b) == IF a < b THEN a ELSE b
Max(a, b) == IF a > b THEN a ELSE b

(***************************************************************************)
(* String-heuristic analyzer and assessor of App.tsx.                      *)
(***************************************************************************)
\* The analyzer with the scam rule applied before the keyword rules.
analyzeProjectTransparency_ScamBeforeKeywords(domain) ==
    LET d == toLowerCase(domain)
        git     == includes(d, <<"g","i","t","h","u","b">>)
                   \/ includes(d, <<"g","i","t">>)
        org     == includes(d, <<"o","f","f","i","c","i","a","l">>)
                   \/ includes(d, <<"o","r","g">>)
        audit   == includes(d, <<"a","u","d","i","t">>)
                   \/ includes(d, <<"s","e","c","u","r","i","t","y">>)
        roadmap == includes(d, <<"r","o","a","d","m","a","p">>)
                   \/ includes(d, <<"d","o","c","s">>)
        token   == includes(d, <<"t","o","k","e","n">>)
                   \/ includes(d, <<"e","c","o","n","o","m","i","c","s">>)
        test    == includes(d, <<"t","e","s","t">>)
                   \/ includes(d, <<"d","e","m","o">>)
        scam    == includes(d, <<"s","c","a","m">>)
                   \/ includes(d, <<"f","a","k","e">>)
                   \/ includes(d, <<"p","h","i","s","h","i","n","g">>)
        new     == includes(d, <<"n","e","w">>)
                   \/ includes(d, <<"b","e","t","a">>)
        score0  == (IF scam THEN 10 ELSE 50) + (IF git THEN 20 ELSE 0) + (IF org THEN 15 ELSE 0)
                      + (IF audit THEN 15 ELSE 0) + (IF roadmap THEN 10 ELSE 0)
                      + (IF token THEN 10 ELSE 0)
        risk0   == IF test THEN 3 ELSE 5
        score1  == score0
        risk1   == IF scam THEN 10 ELSE risk0
        risk2   == IF new THEN risk1 + 2 ELSE risk1
    IN  [ domain            |-> domain,
          transparencyScore |-> Min(100, Max(0, score1)),
          riskLevel         |-> Min(10, Max(0, risk2)),
          certificateValid  |-> ~includes(d, <<"i","n","v","a","l","i","d">>),
          metadata |->
            [ hasPublicGithub      |-> git /\ ~scam,
              hasDocumentedRoadmap |-> roadmap /\ ~scam,
              hasAuditReports      |-> audit /\ ~scam,
              hasTeamVerification  |-> org /\ ~scam,
              hasTokenEconomics    |-> token /\ ~scam,
              codeReviewScore      |-> IF scam THEN 1 ELSE IF git THEN 9 ELSE 5 ] ]

analyzeProjectTransparency(domain) ==
    LET d == toLowerCase(domain)
        git     == includes(d, <<"g","i","t","h","u","b">>)
                   \/ includes(d, <<"g","i","t">>)
        org     == includes(d, <<"o","f","f","i","c","i","a","l">>)
                   \/ includes(d, <<"o","r","g">>)
        audit   == includes(d, <<"a","u","d","i","t">>)
                   \/ includes(d, <<"s","e","c","u","r","i","t","y">>)
        roadmap == includes(d, <<"r","o","a","d","m","a","p">>)
                   \/ includes(d, <<"d","o","c","s">>)
        token   == includes(d, <<"t","o","k","e","n">>)
                   \/ includes(d, <<"e","c","o","n","o","m","i","c","s">>)
        test    == includes(d, <<"t","e","s","t">>)
                   \/ includes(d, <<"d","e","m","o">>)
        scam    == includes(d, <<"s","c","a","m">>)
                   \/ includes(d, <<"f","a","k","e">>)
                   \/ includes(d, <<"p","h","i","s","h","i","n","g">>)
        new     == includes(d, <<"n","e","w">>)
                   \/ includes(d, <<"b","e","t","a">>)
        score0  == 50 + (IF git THEN 20 ELSE 0) + (IF org THEN 15 ELSE 0)
                      + (IF audit THEN 15 ELSE 0) + (IF roadmap THEN 10 ELSE 0)
                      + (IF token THEN 10 ELSE 0)
        risk0   == IF test THEN 3 ELSE 5
        score1  == IF scam THEN 10 ELSE score0
        risk1   == IF scam THEN 10 ELSE risk0
        risk2   == IF new THEN risk1 + 2 ELSE risk1
    IN  [ domain            |-> domain,
          transparencyScore |-> Min(100, Max(0, score1)),
          riskLevel         |-> Min(10, Max(0, risk2)),
          certificateValid  |-> ~includes(d, <<"i","n","v","a","l","i","d">>),
          metadata |->
            [ hasPublicGithub      |-> git /\ ~scam,
              hasDocumentedRoadmap |-> roadmap /\ ~scam,
              hasAuditReports      |-> audit /\ ~scam,
              hasTeamVerification  |-> org /\ ~scam,
              hasTokenEconomics    |-> token /\ ~scam,
              codeReviewScore      |-> IF scam THEN 1 ELSE IF git THEN 9 ELSE 5 ] ]

\* The recommendation chain with thresholds that include 80 and 60.
Recommendation_Inclusive(isLegitimate, confidenceScore) ==
    IF isLegitimate /\ confidenceScore >= 80 THEN
        "HIGHLY LEGITIMATE - Strong transparency indicators with minimal risk factors"
    ELSE IF isLegitimate /\ confidenceScore >= 60 THEN
        "LIKELY LEGITIMATE - Good transparency indicators with some areas for improvement"
    ELSE IF isLegitimate THEN
        "POSSIBLY LEGITIMATE - Some transparency indicators but requires further verification"
    ELSE
        "SUSPICIOUS - Multiple risk factors detected, proceed with caution"

\* The recommendation chain with its first two tests in the other order.
Recommendation_LikelyFirst(isLegitimate, confidenceScore) ==
    IF isLegitimate /\ confidenceScore > 60 THEN
        "LIKELY LEGITIMATE - Good transparency indicators with some areas for improvement"
    ELSE IF isLegitimate /\ confidenceScore > 80 THEN
        "HIGHLY LEGITIMATE - Strong transparency indicators with minimal risk factors"
    ELSE IF isLegitimate THEN
        "POSSIBLY LEGITIMATE - Some transparency indicators but requires further verification"
    ELSE
        "SUSPICIOUS - Multiple risk factors detected, proceed with caution"

Recommendation(isLegitimate, confidenceScore) ==
    IF isLegitimate /\ confidenceScore > 80 THEN
        "HIGHLY LEGITIMATE - Strong transparency indicators with minimal risk factors"
    ELSE IF isLegitimate /\ confidenceScore > 60 THEN
        "LIKELY LEGITIMATE - Good transparency indicators with some areas for improvement"
    ELSE IF isLegitimate THEN
        "POSSIBLY LEGITIMATE - Some transparency indicators but requires further verification"
    ELSE
        "SUSPICIOUS - Multiple risk factors detected, proceed with caution"

\* confidenceScore lowered by the risk level.
assessedConfidenceScore_RiskAdjusted(data) == data.transparencyScore - data.riskLevel

\* let confidenceScore = transparencyScore
assessedConfidenceScore(data) == data.transparencyScore

\* isLegitimate also cleared by the missing-repository rule.
assessedIsLegitimate_RepositoryRule(data) ==
    /\ ~(data.riskLevel > 7)
    /\ ~(data.transparencyScore < 30)
    /\ ~(~data.metadata.hasPublicGithub /\ data.transparencyScore < 50)

\* isLegitimate cleared from a risk level of 7 on.
assessedIsLegitimate_RiskFromSeven(data) ==
    /\ ~(data.riskLevel >= 7)
    /\ ~(data.transparencyScore < 30)

\* let isLegitimate = true, cleared by the first two risk rules
assessedIsLegitimate(data) ==
    /\ ~(data.riskLevel > 7)
    /\ ~(data.transparencyScore < 30)

assessLegitimacy(data) ==
    LET score == data.transparencyScore
        conf  == assessedConfidenceScore(data)
        risk  == data.riskLevel
        md    == data.metadata
        legit == assessedIsLegitimate(data)
    IN  [ isLegitimate    |-> legit,
          confidenceScore |-> conf,
          riskFactors |->
            (IF risk > 7 THEN <<"High risk level detected">> ELSE <<>>)
            \o (IF score < 30 THEN <<"Low transparency score">> ELSE <<>>)
            \o (IF ~md.hasPublicGithub /\ score < 50
                THEN <<"No public code repository">> ELSE <<>>)
            \o (IF ~md.hasAuditReports /\ risk > 5
                THEN <<"No security audits found">> ELSE <<>>),
          transparencyIndicators |->
            (IF md.hasPublicGithub THEN <<"Public GitHub repository">> ELSE <<>>)
            \o (IF md.hasDocumentedRoadmap
                THEN <<"Documented project roadmap">> ELSE <<>>)
            \o (IF md.hasAuditReports
                THEN <<"Security audit reports available">> ELSE <<>>)
            \o (IF md.hasTeamVerification
                THEN <<"Team verification completed">> ELSE <<>>)
            \o (IF md.hasTokenEconomics
                THEN <<"Token economics documented">> ELSE <<>>),
          overallRecommendation |-> Recommendation(legit, conf) ]

(***************************************************************************)
(* Network-assisted analyzer of services/transparencyService.ts.           *)
(***************************************************************************)
StartsWith(s, p) == Len(s) >= Len(p) /\ SubSeq(s, 1, Len(p)) = p

DropPrefix(s, p) == IF StartsWith(s, p) THEN SubSeq(s, Len(p) + 1, Len(s)) ELSE s

\* .replace(/^https?:\/\//, "").replace(/^www\./, "").replace(/\/$/, "").toLowerCase()
cleanDomain(domain) ==
    LET a == IF StartsWith(domain, <<"h","t","t","p","s",":","/","/">>)
             THEN DropPrefix(domain, <<"h","t","t","p","s",":","/","/">>)
             ELSE DropPrefix(domain, <<"h","t","t","p",":","/","/">>)
        b == DropPrefix(a, <<"w","w","w",".">>)
        c == IF b # <<>> /\ b[Len(b)] = "/" THEN SubSeq(b, 1, Len(b) - 1) ELSE b
    IN  toLowerCase(c)

establishedDomains ==
    {
      <<"g","o","o","g","l","e",".","c","o","m">>,
      <<"m","i","c","r","o","s","o","f","t",".","c","o","m">>,
      <<"a","p","p","l","e",".","c","o","m">>,
      <<"a","m","a","z","o","n",".","c","o","m">>,
      <<"f","a","c","e","b","o","o","k",".","c","o","m">>,
      <<"t","w","i","t","t","e","r",".","c","o","m">>,
      <<"l","i","n","k","e","d","i","n",".","c","o","m">>,
      <<"y","o","u","t","u","b","e",".","c","o","m">>,
      <<"i","n","s","t","a","g","r","a","m",".","c","o","m">>,
      <<"g","i","t","h","u","b",".","c","o","m">>,
      <<"s","t","a","c","k","o","v","e","r","f","l","o","w",".","c","o","m">>,
      <<"r","e","d","d","i","t",".","c","o","m">>,
      <<"b","l","u","e","s","k","y",".","a","p","p">>,
      <<"m","a","s","t","o","d","o","n",".","s","o","c","i","a","l">>,
      <<"d","i","s","c","o","r","d",".","c","o","m">>,
      <<"s","l","a","c","k",".","c","o","m">>,
      <<"z","o","o","m",".","u","s">>,
      <<"n","e","t","f","l","i","x",".","c","o","m">>,
      <<"s","p","o","t","i","f","y",".","c","o","m">>,
      <<"e","t","h","e","r","e","u","m",".","o","r","g">>,
      <<"e","t","h","e","r","e","u","m",".","c","o","m">>,
      <<"b","i","t","c","o","i","n",".","o","r","g">>,
      <<"s","o","l","a","n","a",".","c","o","m">>,
      <<"p","o","l","y","g","o","n",".","t","e","c","h","n","o","l","o","g","y">>,
      <<"c","h","a","i","n","l","i","n","k",".","n","e","t","w","o","r","k">>,
      <<"u","n","i","s","w","a","p",".","o","r","g">>,
      <<"o","p","e","n","s","e","a",".","i","o">>
    }

isEstablishedCompany(domain) ==
    \E established \in establishedDomains : includes(domain, established)

\* calculateTransparencyScore without the branch for established companies.
calculateTransparencyScore_NoBaseline(data) ==
    LET score ==
          (IF data.hasPublicGithub THEN 25 ELSE 0)
          + (IF data.hasDocumentedRoadmap THEN 20 ELSE 0)
          + (IF data.hasAuditReports THEN 25 ELSE 0)
          + (IF data.hasTeamVerification THEN 15 ELSE 0)
          + (IF data.hasTokenEconomics THEN 15 ELSE 0)
          + Min(data.githubStars \div 100, 10)
          + (data.codeReviewScore \div 4)
    IN  Min(score, 100)

\* calculateTransparencyScore without the final Math.min(score, 100).
calculateTransparencyScore_NoCap(data) ==
    IF isEstablishedCompany(data.domain)
    THEN 85 + (IF data.hasPublicGithub THEN 5 ELSE 0)
            + (IF data.hasTeamVerification THEN 5 ELSE 0)
            + (IF data.hasAuditReports THEN 5 ELSE 0)
    ELSE (IF data.hasPublicGithub THEN 25 ELSE 0)
         + (IF data.hasDocumentedRoadmap THEN 20 ELSE 0)
         + (IF data.hasAuditReports THEN 25 ELSE 0)
         + (IF data.hasTeamVerification THEN 15 ELSE 0)
         + (IF data.hasTokenEconomics THEN 15 ELSE 0)
         + Min(data.githubStars \div 100, 10)
         + (data.codeReviewScore \div 4)

calculateTransparencyScore(data) ==
    LET score ==
          IF isEstablishedCompany(data.domain)
          THEN 85 + (IF data.hasPublicGithub THEN 5 ELSE 0)
                  + (IF data.hasTeamVerification THEN 5 ELSE 0)
                  + (IF data.hasAuditReports THEN 5 ELSE 0)
          ELSE (IF data.hasPublicGithub THEN 25 ELSE 0)
               + (IF data.hasDocumentedRoadmap THEN 20 ELSE 0)
               + (IF data.hasAuditReports THEN 25 ELSE 0)
               + (IF data.hasTeamVerification THEN 15 ELSE 0)
               + (IF data.hasTokenEconomics THEN 15 ELSE 0)
               + Min(data.githubStars \div 100, 10)
               + (data.codeReviewScore \div 4)
    IN  Min(score, 100)

calculateRiskLevel(data) ==
    LET risk ==
          IF isEstablishedCompany(data.domain)
          THEN 1 + (IF ~data.certificateValid THEN 3 ELSE 0)
          ELSE (IF ~data.certificateValid THEN 5 ELSE 0)
               + (IF data.githubStars = 0 /\ data.hasPublicGithub THEN 2 ELSE 0)
               + (IF data.codeReviewScore < 30 THEN 3 ELSE 0)
               + (IF ~data.hasAuditReports /\ data.githubStars > 100 THEN 1 ELSE 0)
    IN  Min(risk, 10)

getFallbackAnalysis(domain) ==
    [ domain            |-> domain,
      transparencyScore |-> 50,
      riskLevel         |-> 5,
      certificateValid  |-> TRUE,
      metadata |->
        [ hasPublicGithub      |-> FALSE,
          hasDocumentedRoadmap |-> FALSE,
          hasAuditReports      |-> FALSE,
          hasTeamVerification  |-> FALSE,
          hasTokenEconomics    |-> FALSE,
          codeReviewScore      |-> 50 ] ]

\* The body of transparencyService.analyzeProjectTransparency, given what its
\* awaited sub-calls returned: o.threw (one of them threw into the top-level
\* catch), o.cert (fetchTlsCertificate().isValid), o.github
\* (analyzeGithubPresence()) and the four checkFor... flags.
analyzeNetwork(domain, o) ==
    IF o.threw THEN getFallbackAnalysis(domain)
    ELSE
      [ domain |-> cleanDomain(domain),
        transparencyScore |->
          calculateTransparencyScore(
            [ hasPublicGithub      |-> o.github.found,
              githubStars          |-> o.github.stars,
              codeReviewScore      |-> o.github.codeReviewScore,
              hasDocumentedRoadmap |-> o.hasRoadmap,
              hasAuditReports      |-> o.hasAudits,
              hasTeamVerification  |-> o.hasTeamVerification,
              hasTokenEconomics    |-> o.hasTokenEconomics,
              domain               |-> domain ]),
        riskLevel |->
          calculateRiskLevel(
            [ certificateValid |-> o.cert,
              hasPublicGithub  |-> o.github.found,
              githubStars      |-> o.github.stars,
              codeReviewScore  |-> o.github.codeReviewScore,
              hasAuditReports  |-> o.hasAudits,
              domain           |-> domain ]),
        certificateValid |-> o.cert,
        metadata |->
          [ hasPublicGithub      |-> o.github.found,
            hasDocumentedRoadmap |-> o.hasRoadmap,
            hasAuditReports      |-> o.hasAudits,
            hasTeamVerification  |-> o.hasTeamVerification,
            hasTokenEconomics    |-> o.hasTokenEconomics,
            codeReviewScore      |-> o.github.codeReviewScore ] ]

(***************************************************************************)
(* The sub-calls of the network-assisted analyzer.  A fetch has one of     *)
(* three outcomes: it resolves with an ok response, resolves with a        *)
(* response that is not ok (with mode "no-cors": an opaque one), or        *)
(* throws.                                                                 *)
(***************************************************************************)
FetchOutcomes == {"ok", "not_ok", "throws"}

trustedDomains ==
    {
      <<"g","i","t","h","u","b",".","c","o","m">>,
      <<"g","o","o","g","l","e",".","c","o","m">>,
      <<"m","i","c","r","o","s","o","f","t",".","c","o","m">>,
      <<"a","p","p","l","e",".","c","o","m">>
    }

\* fetchTlsCertificate(domain).isValid, given the outcome of its HEAD request
fetchTlsCertificate(domain, r) ==
    IF r # "throws" THEN TRUE
    ELSE \E d \in trustedDomains : includes(domain, d)

\* The keys of knownRepos.
knownRepos ==
    {
      <<"b","l","u","e","s","k","y",".","a","p","p">>,
      <<"g","i","t","h","u","b",".","c","o","m">>,
      <<"g","o","o","g","l","e",".","c","o","m">>,
      <<"f","a","c","e","b","o","o","k",".","c","o","m">>,
      <<"m","i","c","r","o","s","o","f","t",".","c","o","m">>,
      <<"e","t","h","e","r","e","u","m",".","o","r","g">>,
      <<"e","t","h","e","r","e","u","m",".","c","o","m">>,
      <<"b","i","t","c","o","i","n",".","o","r","g">>,
      <<"s","o","l","a","n","a",".","c","o","m">>,
      <<"p","o","l","y","g","o","n",".","t","e","c","h","n","o","l","o","g","y">>,
      <<"c","h","a","i","n","l","i","n","k",".","n","e","t","w","o","r","k">>,
      <<"u","n","i","s","w","a","p",".","o","r","g">>,
      <<"o","p","e","n","s","e","a",".","i","o">>
    }

\* findGithubRepository(domain) # null, given the outcome of the request for
\* the known mapping and of the requests for the three guessed patterns
findGithubRepository(domain, known, patterns) ==
    \/ (domain \in knownRepos /\ known = "ok")
    \/ \E i \in 1..Len(patterns) : patterns[i] = "ok"

\* fetchGithubRepoData(repoPath): the parsed body (Some) or null
fetchGithubRepoData(r, body) == IF r = "ok" THEN Some(body) ELSE Null

calculateCodeReviewScore(repoData) ==
    LET stars == repoData.stargazers_count
        forks == repoData.forks_count
        score ==
          20
          + (IF stars > 1000 THEN 25 ELSE IF stars > 100 THEN 20
             ELSE IF stars > 10 THEN 15 ELSE IF stars > 0 THEN 10 ELSE 0)
          + (IF forks > 100 THEN 20 ELSE IF forks > 10 THEN 15
             ELSE IF forks > 1 THEN 10 ELSE 0)
          + (IF repoData.updated_at = Null THEN 0
             ELSE IF repoData.updated_at[1] < 30 THEN 15
             ELSE IF repoData.updated_at[1] < 90 THEN 10
             ELSE IF repoData.updated_at[1] < 365 THEN 5 ELSE 0)
          + (IF repoData.license THEN 10 ELSE 0)
          + (IF repoData.description THEN 10 ELSE 0)
    IN  Min(score, 100)

\* analyzeGithubPresence(domain), given the outcomes g of its requests
analyzeGithubPresence(domain, g) ==
    IF ~findGithubRepository(domain, g.known, g.patterns)
    THEN [found |-> FALSE, stars |-> 0, forks |-> 0, codeReviewScore |-> 0]
    ELSE LET repoData == fetchGithubRepoData(g.repo, g.body)
         IN  IF repoData = Null
             THEN [found |-> TRUE, stars |-> 0, forks |-> 0, codeReviewScore |-> 20]
             ELSE [ found |-> TRUE,
                    stars |-> repoData[1].stargazers_count,
                    forks |-> repoData[1].forks_count,
                    codeReviewScore |-> calculateCodeReviewScore(repoData[1]) ]

blockchainDomains ==
    {
      <<"e","t","h","e","r","e","u","m",".","o","r","g">>,
      <<"e","t","h","e","r","e","u","m",".","c","o","m">>,
      <<"b","i","t","c","o","i","n",".","o","r","g">>,
      <<"s","o","l","a","n","a",".","c","o","m">>,
      <<"p","o","l","y","g","o","n",".","t","e","c","h","n","o","l","o","g","y">>,
      <<"c","h","a","i","n","l","i","n","k",".","n","e","t","w","o","r","k">>,
      <<"u","n","i","s","w","a","p",".","o","r","g">>,
      <<"o","p","e","n","s","e","a",".","i","o">>
    }

isBlockchainCompany(domain) ==
    \E blockchain \in blockchainDomains : includes(domain, blockchain)

\* The loop `for (const path of paths) { await fetch(...); return true; }
\* return false;` inside try/catch: rs are the outcomes of the requests, one
\* for each path, in order.
FirstRequestResolves(rs) == IF rs = <<>> THEN FALSE ELSE rs[1] # "throws"

checkForRoadmap(domain, rs) ==
    IF isEstablishedCompany(domain) THEN TRUE ELSE FirstRequestResolves(rs)

checkForAuditReports(domain, rs) ==
    IF isEstablishedCompany(domain) /\ isBlockchainCompany(domain) THEN TRUE
    ELSE FirstRequestResolves(rs)

checkForTeamVerification(domain, rs) ==
    IF isEstablishedCompany(domain) THEN TRUE ELSE FirstRequestResolves(rs)

checkForTokenEconomics(domain, rs) ==
    IF isEstablishedCompany(domain) /\ isBlockchainCompany(domain) THEN TRUE
    ELSE FirstRequestResolves(rs)

\* The earlier revision of the four probes (unnamed/part_008): the loop
\* `for (const path of paths) { if ((await fetch(...)).ok) return true; }
\* return false;` inside try/catch.
RECURSIVE SomeRequestOk(_)
SomeRequestOk(rs) ==
    IF rs = <<>> THEN FALSE
    ELSE IF rs[1] = "throws" THEN FALSE
    ELSE IF rs[1] = "ok" THEN TRUE
    ELSE SomeRequestOk(Tail(rs))

checkForRoadmap_part008(domain, rs) == SomeRequestOk(rs)

checkForAuditReports_part008(domain, rs) == SomeRequestOk(rs)

checkForTeamVerification_part008(domain, rs) == SomeRequestOk(rs)

checkForTokenEconomics_part008(domain, rs) == SomeRequestOk(rs)

\* What the awaited sub-calls of analyzeProjectTransparency return for the
\* cleaned domain, given the outcomes env of their requests; env.threw: an
\* exception escaped a statement of the try block.
SubCalls(clean, env) ==
    [ threw  |-> env.threw,
      cert   |-> fetchTlsCertificate(clean, env.tls),
      github |-> analyzeGithubPresence(clean, env.github),
      hasRoadmap          |-> checkForRoadmap(clean, env.roadmap),
      hasAudits           |-> checkForAuditReports(clean, env.audit),
      hasTeamVerification |-> checkForTeamVerification(clean, env.team),
      hasTokenEconomics   |-> checkForTokenEconomics(clean, env.token) ]

\* The analyzer without its catch block: an exception of the try block rejects
\* the promise.
analyzeProjectTransparencyService_NoCatch(domain, env) ==
    IF env.threw THEN [ kind |-> "rejected" ]
    ELSE [ kind  |-> "resolved",
           value |-> analyzeNetwork(domain, SubCalls(cleanDomain(domain), env)) ]

\* transparencyService.analyzeProjectTransparency(domain) as its caller sees
\* it: the promise resolves with a result, or rejects.
analyzeProjectTransparencyService(domain, env) ==
    [ kind  |-> "resolved",
      value |-> analyzeNetwork(domain, SubCalls(cleanDomain(domain), env)) ]

(***************************************************************************)
(* The requests of one analysis, in the order they are issued.             *)
(***************************************************************************)
\* The paths the existence probes request.
auditPaths == <<"/audit", "/security/audit", "/audits", "/security">>
teamPaths == <<"/team", "/about/team", "/about", "/leadership">>
tokenPaths == <<"/tokenomics", "/token-economics", "/economics", "/whitepaper">>
roadmapPaths == <<"/roadmap">>

\* String.prototype.replace(sub, rep) with a string pattern: the first
\* occurrence only.
replace(s, sub, rep) ==
    LET at == { i \in 1..(Len(s) - Len(sub) + 1) :
                  SubSeq(s, i, i + Len(sub) - 1) = sub }
    IN  IF at = {} THEN s
        ELSE LET i == CHOOSE k \in at : \A j \in at : k <= j
             IN  SubSeq(s, 1, i - 1) \o rep \o SubSeq(s, i + Len(sub), Len(s))

\* s.split(".")[0]
splitFirst(s) ==
    LET at == { i \in 1..Len(s) : s[i] = "." }
    IN  IF at = {} THEN s
        ELSE SubSeq(s, 1, (CHOOSE k \in at : \A j \in at : k <= j) - 1)

\* knownRepos[domain] for a key of knownRepos.
knownRepoPath(domain) ==
    CASE domain = <<"b","l","u","e","s","k","y",".","a","p","p">> ->
           <<"b","l","u","e","s","k","y","-","s","o","c","i","a","l","/","a","t","p","r","o","t","o">>
      [] domain = <<"g","i","t","h","u","b",".","c","o","m">> ->
           <<"g","i","t","h","u","b","/","g","i","t","h","u","b">>
      [] domain = <<"g","o","o","g","l","e",".","c","o","m">> ->
           <<"g","o","o","g","l","e","/","g","o","o","g","l","e">>
      [] domain = <<"f","a","c","e","b","o","o","k",".","c","o","m">> ->
           <<"f","a","c","e","b","o","o","k","/","r","e","a","c","t">>
      [] domain = <<"m","i","c","r","o","s","o","f","t",".","c","o","m">> ->
           <<"m","i","c","r","o","s","o","f","t","/","v","s","c","o","d","e">>
      [] domain = <<"e","t","h","e","r","e","u","m",".","o","r","g">> ->
           <<"e","t","h","e","r","e","u","m","/","e","t","h","e","r","e","u","m","-","o","r","g","-","w","e","b","s","i","t","e">>
      [] domain = <<"e","t","h","e","r","e","u","m",".","c","o","m">> ->
           <<"e","t","h","e","r","e","u","m","/","g","o","-","e","t","h","e","r","e","u","m">>
      [] domain = <<"b","i","t","c","o","i","n",".","o","r","g">> ->
           <<"b","i","t","c","o","i","n","/","b","i","t","c","o","i","n">>
      [] domain = <<"s","o","l","a","n","a",".","c","o","m">> ->
           <<"s","o","l","a","n","a","-","l","a","b","s","/","s","o","l","a","n","a">>
      [] domain = <<"p","o","l","y","g","o","n",".","t","e","c","h","n","o","l","o","g","y">> ->
           <<"m","a","t","i","c","n","e","t","w","o","r","k","/","p","o","l","y","g","o","n","-","s","d","k">>
      [] domain = <<"c","h","a","i","n","l","i","n","k",".","n","e","t","w","o","r","k">> ->
           <<"s","m","a","r","t","c","o","n","t","r","a","c","t","k","i","t","/","c","h","a","i","n","l","i","n","k">>
      [] domain = <<"u","n","i","s","w","a","p",".","o","r","g">> ->
           <<"U","n","i","s","w","a","p","/","i","n","t","e","r","f","a","c","e">>
      [] domain = <<"o","p","e","n","s","e","a",".","i","o">> ->
           <<"P","r","o","j","e","c","t","O","p","e","n","S","e","a","/","o","p","e","n","s","e","a","-","j","s">>

\* The repository names findGithubRepository guesses from the domain.
repoPatterns(domain) ==
    << replace(replace(domain, <<".","c","o","m">>, <<>>), <<".">>, <<"-">>),
       replace(domain, <<".","c","o","m">>, <<>>),
       splitFirst(domain) >>

\* `https://api.github.com/repos/${repoPath}`
repoUrl(repoPath) == <<"h","t","t","p","s",":","/","/","a","p","i",".","g","i","t","h","u","b",".","c","o","m","/","r","e","p","o","s","/">> \o repoPath

\* `https://${domain}${path}`
siteUrl(domain, path) == <<"h","t","t","p","s",":","/","/">> \o domain \o path

\* The URLs analyzeGithubPresence requests, in order: the known mapping and
\* the guessed patterns in findGithubRepository up to the first ok response,
\* then the repository found in fetchGithubRepoData.
githubRequests(domain, g) ==
    LET known == IF domain \in knownRepos
                 THEN <<repoUrl(knownRepoPath(domain))>> ELSE <<>>
        pats  == repoPatterns(domain)
        hits  == { i \in 1..Len(pats) : g.patterns[i] = "ok" }
        tried == IF hits = {} THEN Len(pats)
                 ELSE CHOOSE k \in hits : \A j \in hits : k <= j
        guess(i) == repoUrl(pats[i] \o <<"/">> \o pats[i])
    IN  IF domain \in knownRepos /\ g.known = "ok"
        THEN known \o known
        ELSE known \o [i \in 1..tried |-> guess(i)]
                   \o (IF hits = {} THEN <<>> ELSE <<guess(tried)>>)

\* The URL an existence probe requests: the first of its paths, unless the
\* probe answers from the allow-list without a request.
probeRequests(domain, shortcut, paths) ==
    IF shortcut \/ paths = <<>> THEN <<>>
    ELSE <<siteUrl(domain, <<paths[1]>>)>>

\* The URLs one analyzeProjectTransparency call requests for the cleaned
\* domain, given the outcomes env of its requests.
analysisRequests(clean, env) ==
    LET est   == isEstablishedCompany(clean)
        chain == est /\ isBlockchainCompany(clean)
    IN  <<siteUrl(clean, <<>>)>>
        \o githubRequests(clean, env.github)
        \o probeRequests(clean, est, roadmapPaths)
        \o probeRequests(clean, chain, auditPaths)
        \o probeRequests(clean, est, teamPaths)
        \o probeRequests(clean, chain, tokenPaths)

(***************************************************************************)
(* SolanaService.initializeAttestationAccount.                             *)
(***************************************************************************)
\* initializeAttestationAccount that rethrows every failure of the request.
initializeAttestationAccount_Rethrows(program, reply) ==
    IF ~program THEN [ kind |-> "rejected", error |-> Some(<<"P","r","o","g","r","a","m"," ","n","o","t"," ","i","n","i","t","i","a","l","i","z","e","d">>) ]
    ELSE IF reply.kind = "ok" THEN [ kind |-> "resolved", value |-> reply.tx ]
    ELSE [ kind |-> "rejected", error |-> reply.message ]

\* program: this.program is set; reply: what .initialize()...rpc() did, a
\* transaction signature or a thrown error with its message (Null: none).
initializeAttestationAccount(program, reply) ==
    IF ~program THEN [ kind |-> "rejected", error |-> Some(<<"P","r","o","g","r","a","m"," ","n","o","t"," ","i","n","i","t","i","a","l","i","z","e","d">>) ]
    ELSE IF reply.kind = "ok" THEN [ kind |-> "resolved", value |-> reply.tx ]
    ELSE IF reply.message # Null /\ includes(reply.message[1], <<"a","l","r","e","a","d","y"," ","i","n"," ","u","s","e">>)
         THEN [ kind |-> "resolved", value |-> <<"a","l","r","e","a","d","y","-","i","n","i","t","i","a","l","i","z","e","d">> ]
    ELSE [ kind |-> "rejected", error |-> reply.message ]

\* part_006 handleGenerateProof, from setProofStatus("generating") to the
\* end of `await solanaService.initializeAttestationAccount()`: the status
\* the session has then.
StatusAfterInitialize(result) ==
    IF result.kind = "rejected" THEN "error" ELSE "generating"

(***************************************************************************)
(* Payloads that part_006 hands to the ledger.                             *)
(***************************************************************************)
\* c.charCodeAt(0) for the characters of a hexadecimal digest.
charCodeAt(c) ==
    CASE c = "0" -> 48 [] c = "1" -> 49 [] c = "2" -> 50 [] c = "3" -> 51
      [] c = "4" -> 52 [] c = "5" -> 53 [] c = "6" -> 54 [] c = "7" -> 55
      [] c = "8" -> 56 [] c = "9" -> 57 [] c = "a" -> 97 [] c = "b" -> 98
      [] c = "c" -> 99 [] c = "d" -> 100 [] c = "e" -> 101 [] c = "f" -> 102

\* Array.prototype.slice(start, end) for 0 <= start <= end.
slice(arr, start, end) == SubSeq(arr, start + 1, Min(end, Len(arr)))

\* Array.from(hash.split("").map((c) => c.charCodeAt(0))).slice(0, n)
hashBytes(hash, n) ==
    slice([i \in 1..Len(hash) |-> charCodeAt(hash[i])], 0, n)

\* generateProofHashFromData: the first 16 characters of the hex digest.
generateProofHashFromData(digest) == substring(digest, 0, 16)

\* The hash fields of submissionData in handleGenerateProof.
submissionData(hash) ==
    [ domainHash              |-> hashBytes(hash, 32),
      certificateValidityHash |-> hashBytes(hash, 32) ]

\* The hash field of voteData in handleVote.
voteData(proofHashCell) ==
    [ domainHash |-> hashBytes(proofHashCell, 32) ]

\* The hash fields of proofVerificationData in handleVerifyProof.
proofVerificationData(proofHashCell) ==
    [ domainHash   |-> hashBytes(proofHashCell, 32),
      proofHash    |-> hashBytes(proofHashCell, 32),
      publicInputs |-> hashBytes(proofHashCell, 100) ]

(***************************************************************************)
(* Inputs of the session.                                                  *)
(***************************************************************************)
Variants == {"sim", "ledger"}

\* Texts the user types into the domain field.
DomainInputs ==
    { <<>>, <<" ">>, <<"a">>, <<" ","A">>, <<"s","c","a","m">> }

\* Positions of the confidence slider (min 1, max 10) the user votes with.
ConfidenceLevels == {3, 10}

\* Values of Math.random().toString(36): "0" when the draw is 0.
RandomBase36 == { <<"0">>, <<"0",".","k","7","q">>, <<"0",".","z">> }

\* SHA-256 digests in hex (64 characters) that crypto.subtle.digest returns.
Digests ==
    { [i \in 1..64 |-> "a"], [i \in 1..64 |-> IF i % 2 = 1 THEN "3" ELSE "f"] }

\* What the awaited sub-calls of the network analyzer returned.
ProbeOutcomes ==
    { [ threw |-> TRUE, cert |-> FALSE,
        github |-> [found |-> FALSE, stars |-> 0, forks |-> 0, codeReviewScore |-> 0],
        hasRoadmap |-> FALSE, hasAudits |-> FALSE,
        hasTeamVerification |-> FALSE, hasTokenEconomics |-> FALSE ],
      [ threw |-> FALSE, cert |-> FALSE,
        github |-> [found |-> FALSE, stars |-> 0, forks |-> 0, codeReviewScore |-> 0],
        hasRoadmap |-> FALSE, hasAudits |-> FALSE,
        hasTeamVerification |-> FALSE, hasTokenEconomics |-> FALSE ] }

RemoveAt(seq, i) == SubSeq(seq, 1, i - 1) \o SubSeq(seq, i + 1, Len(seq))

(***************************************************************************)
(* Session state: AppContent and CommunityVotingPanel.                     *)
(***************************************************************************)
\* The cells of AppContent and CommunityVotingPanel as they are constructed.
IdleSession ==
    /\ connected = FALSE
    /\ proofStatus = "idle"
    /\ proofHash = <<>>
    /\ verificationResult = Null
    /\ projectData = Null
    /\ legitimacyAssessment = Null
    /\ projectDomain = <<>>
    /\ userVote = Null
    /\ analyzedDomains = {}
    /\ isVoting = FALSE
    /\ gens = <<>>
    /\ votes = 0
    /\ verifs = <<>>
    /\ lastResult = "none"
    /\ hist = [ sawPendingVote |-> FALSE,   \* pending_vote was shown this round
                startedFrom    |-> "",      \* status the latest analysis began in
                submitted      |-> <<>>,    \* texts accepted for analysis
                voteLog        |-> <<>> ]   \* domains that received a vote

Init ==
    /\ variant \in Variants
    /\ IdleSession
    /\ call = Null
    /\ ret = Null
    /\ run = Null

\* DomainKey without the case folding.
DomainKey_NoFold(domain) == trim(domain)

\* projectDomain.trim().toLowerCase()
DomainKey(domain) == toLowerCase(trim(domain))

\* GenerateDisabledFor without its pending_vote line.
GenerateDisabledFor_NoPendingVote(domain) ==
    \/ ~connected
    \/ trim(domain) = <<>>
    \/ proofStatus = "generating"
    \/ proofStatus = "verifying"
    \/ proofStatus = "success"
    \/ proofStatus = "verification_complete"
    \/ userVote # Null
    \/ toLowerCase(trim(domain)) \in analyzedDomains

\* disabled= of <ProofGenerator>, with `domain` in the domain field
GenerateDisabledFor(domain) ==
    \/ ~connected
    \/ trim(domain) = <<>>
    \/ proofStatus = "generating"
    \/ proofStatus = "verifying"
    \/ proofStatus = "pending_vote"
    \/ proofStatus = "success"
    \/ proofStatus = "verification_complete"
    \/ userVote # Null
    \/ DomainKey(domain) \in analyzedDomains

GenerateDisabled == GenerateDisabledFor(projectDomain)

\* disabled= of <ProofVerifier>
VerifyDisabled ==
    \/ ~connected
    \/ proofHash = <<>>
    \/ userVote = Null
    \/ proofStatus = "generating"
    \/ proofStatus = "verifying"
    \/ proofStatus = "pending_vote"
    \/ proofStatus = "idle"
    \/ proofStatus = "error"
    \/ proofStatus = "verification_complete"

\* {projectData && legitimacyAssessment && (...)}: the analysis block, which
\* holds the voting panel and the reset button, is rendered.
PanelRendered == projectData # Null /\ legitimacyAssessment # Null

\* CommunityVotingPanel: hasVoted, and disabled= of the two vote buttons
hasVoted == userVote # Null
VoteDisabled_NoHasVoted == isVoting
VoteDisabled == isVoting \/ hasVoted

\* the domain <input> is disabled while generating or verifying
InputDisabled == proofStatus = "generating" \/ proofStatus = "verifying"

\* The reset button is rendered only in verification_complete.
ResetRendered == PanelRendered /\ proofStatus = "verification_complete"

(***************************************************************************)
(* The user and the wallet.                                                *)
(***************************************************************************)
SetProjectDomain(d) ==
    /\ ~InputDisabled
    /\ d # projectDomain
    /\ projectDomain' = d
    /\ lastResult' = "none"
    /\ UNCHANGED <<variant, connected, proofStatus, proofHash,
                   verificationResult, projectData, legitimacyAssessment,
                   userVote, analyzedDomains, isVoting, gens, votes, verifs,
                   hist>>
    /\ UNCHANGED fnvars

WalletConnect ==
    /\ ~connected
    /\ connected' = TRUE
    /\ lastResult' = "none"
    /\ UNCHANGED <<variant, proofStatus, proofHash, verificationResult,
                   projectData, legitimacyAssessment, projectDomain,
                   userVote, analyzedDomains, isVoting, gens, votes, verifs,
                   hist>>
    /\ UNCHANGED fnvars

WalletDisconnect ==
    /\ connected
    /\ connected' = FALSE
    /\ lastResult' = "none"
    /\ UNCHANGED <<variant, proofStatus, proofHash, verificationResult,
                   projectData, legitimacyAssessment, projectDomain,
                   userVote, analyzedDomains, isVoting, gens, votes, verifs,
                   hist>>
    /\ UNCHANGED fnvars

(***************************************************************************)
(* handleGenerateProof.                                                    *)
(***************************************************************************)
\* Validation at the head of handleGenerateProof: "" when the call goes on.
GenerateValidation ==
    IF trim(projectDomain) = <<>> THEN "invalid_domain"
    ELSE IF variant = "ledger" /\ ~connected THEN "no_wallet"
    ELSE ""

\* handleGenerateProof recording the domain key before it validates.
handleGenerateProof_KeyBeforeValidation ==
    /\ analyzedDomains' = analyzedDomains \cup {toLowerCase(trim(projectDomain))}
    /\ IF GenerateValidation # ""
       THEN /\ proofStatus' = "error"
            /\ lastResult' = GenerateValidation
            /\ UNCHANGED <<variant, connected, proofHash, verificationResult,
                           projectData, legitimacyAssessment, projectDomain,
                           userVote, isVoting, gens, votes, verifs, hist>>
       ELSE /\ proofStatus' = "generating"
            /\ gens' = Append(gens,
                   [ dom |-> projectDomain,
                     pc  |-> IF variant = "sim" THEN "timer" ELSE "init" ])
            /\ lastResult' = "accepted"
            /\ hist' = [hist EXCEPT !.sawPendingVote = FALSE,
                                    !.startedFrom = proofStatus,
                                    !.submitted = Append(@, projectDomain)]
            /\ UNCHANGED <<variant, connected, proofHash, verificationResult,
                           projectData, legitimacyAssessment, projectDomain,
                           userVote, isVoting, votes, verifs>>

\* handleGenerateProof that does not record the domain key when it starts.
handleGenerateProof_KeyNotRecorded ==
    IF GenerateValidation # ""
    THEN /\ proofStatus' = "error"
         /\ lastResult' = GenerateValidation
         /\ UNCHANGED <<variant, connected, proofHash, verificationResult,
                        projectData, legitimacyAssessment, projectDomain,
                        userVote, analyzedDomains, isVoting, gens, votes,
                        verifs, hist>>
    ELSE /\ proofStatus' = "generating"
         /\ gens' = Append(gens,
                [ dom |-> projectDomain,
                  pc  |-> IF variant = "sim" THEN "timer" ELSE "init" ])
         /\ lastResult' = "accepted"
         /\ hist' = [hist EXCEPT !.sawPendingVote = FALSE,
                                 !.startedFrom = proofStatus,
                                 !.submitted = Append(@, projectDomain)]
         /\ UNCHANGED <<variant, connected, proofHash, verificationResult,
                        projectData, legitimacyAssessment, projectDomain,
                        userVote, analyzedDomains, isVoting, votes, verifs>>

\* The call up to its first await.
handleGenerateProof ==
    IF GenerateValidation # ""
    THEN /\ proofStatus' = "error"
         /\ lastResult' = GenerateValidation
         /\ UNCHANGED <<variant, connected, proofHash, verificationResult,
                        projectData, legitimacyAssessment, projectDomain,
                        userVote, analyzedDomains, isVoting, gens, votes,
                        verifs, hist>>
    ELSE /\ proofStatus' = "generating"
         /\ analyzedDomains' = analyzedDomains \cup {DomainKey(projectDomain)}
         /\ gens' = Append(gens,
                [ dom |-> projectDomain,
                  pc  |-> IF variant = "sim" THEN "timer" ELSE "init" ])
         /\ lastResult' = "accepted"
         /\ hist' = [hist EXCEPT !.sawPendingVote = FALSE,
                                 !.startedFrom = proofStatus,
                                 !.submitted = Append(@, projectDomain)]
         /\ UNCHANGED <<variant, connected, proofHash, verificationResult,
                        projectData, legitimacyAssessment, projectDomain,
                        userVote, isVoting, votes, verifs>>

\* A click on the Generate Proof button.
GenerateClick ==
    /\ ~GenerateDisabled
    /\ Len(gens) < MaxGens
    /\ handleGenerateProof
    /\ UNCHANGED fnvars

\* App.tsx: the 1 s timer fires and the rest of the try block runs.
SimGenerateDone(i, rnd) ==
    /\ variant = "sim"
    /\ i \in 1..Len(gens)
    /\ gens[i].pc = "timer"
    /\ LET data == analyzeProjectTransparency(trim(gens[i].dom))
       IN  /\ proofHash' = substring(rnd, 2, 15)
           /\ projectData' = Some(data)
           /\ legitimacyAssessment' = Some(assessLegitimacy(data))
    /\ proofStatus' = "pending_vote"
    /\ gens' = RemoveAt(gens, i)
    /\ hist' = [hist EXCEPT !.sawPendingVote = TRUE]
    /\ lastResult' = "none"
    /\ UNCHANGED <<variant, connected, verificationResult, projectDomain,
                   userVote, analyzedDomains, isVoting, votes, verifs>>
    /\ UNCHANGED fnvars

\* part_006: initializeAttestationAccount() resolved; the analysis is called.
LedgerInitDone(i) ==
    /\ variant = "ledger"
    /\ i \in 1..Len(gens)
    /\ gens[i].pc = "init"
    /\ gens' = [gens EXCEPT ![i].pc = "analyze"]
    /\ lastResult' = "none"
    /\ UNCHANGED <<variant, connected, proofStatus, proofHash,
                   verificationResult, projectData, legitimacyAssessment,
                   projectDomain, userVote, analyzedDomains, isVoting, votes,
                   verifs, hist>>
    /\ UNCHANGED fnvars

\* part_006: the analysis and the assessment resolved and are stored;
\* generateProofHashFromData is called.
LedgerAnalysisDone(i, o) ==
    /\ variant = "ledger"
    /\ i \in 1..Len(gens)
    /\ gens[i].pc = "analyze"
    /\ LET data == analyzeNetwork(trim(gens[i].dom), o)
       IN  /\ projectData' = Some(data)
           /\ legitimacyAssessment' = Some(assessLegitimacy(data))
           /\ gens' = [gens EXCEPT ![i].pc = "hash"]
    /\ lastResult' = "none"
    /\ UNCHANGED <<variant, connected, proofStatus, proofHash,
                   verificationResult, projectDomain, userVote,
                   analyzedDomains, isVoting, votes, verifs, hist>>
    /\ UNCHANGED fnvars

\* part_006: generateProofHashFromData resolved; submitProject is called.
LedgerHashDone(i, digest) ==
    /\ variant = "ledger"
    /\ i \in 1..Len(gens)
    /\ gens[i].pc = "hash"
    /\ proofHash' = generateProofHashFromData(digest)
    /\ gens' = [gens EXCEPT ![i].pc = "submit"]
    /\ lastResult' = "none"
    /\ UNCHANGED <<variant, connected, proofStatus, verificationResult,
                   projectData, legitimacyAssessment, projectDomain,
                   userVote, analyzedDomains, isVoting, votes, verifs, hist>>
    /\ UNCHANGED fnvars

\* part_006: submitProject resolved.
LedgerSubmitDone(i) ==
    /\ variant = "ledger"
    /\ i \in 1..Len(gens)
    /\ gens[i].pc = "submit"
    /\ proofStatus' = "pending_vote"
    /\ gens' = RemoveAt(gens, i)
    /\ hist' = [hist EXCEPT !.sawPendingVote = TRUE]
    /\ lastResult' = "none"
    /\ UNCHANGED <<variant, connected, proofHash, verificationResult,
                   projectData, legitimacyAssessment, projectDomain,
                   userVote, analyzedDomains, isVoting, votes, verifs>>
    /\ UNCHANGED fnvars

\* part_006: an awaited call of the try block rejected (initializeAttestationAccount,
\* generateProofHashFromData or submitProject; the analyzer never rejects).
LedgerGenerateFail(i) ==
    /\ variant = "ledger"
    /\ i \in 1..Len(gens)
    /\ gens[i].pc \in {"init", "hash", "submit"}
    /\ proofStatus' = "error"
    /\ gens' = RemoveAt(gens, i)
    /\ lastResult' = "generate_failed"
    /\ UNCHANGED <<variant, connected, proofHash, verificationResult,
                   projectData, legitimacyAssessment, projectDomain,
                   userVote, analyzedDomains, isVoting, votes, verifs, hist>>
    /\ UNCHANGED fnvars

(***************************************************************************)
(* handleVote, called by CommunityVotingPanel.handleVote.                  *)
(***************************************************************************)
\* The guard at the head of part_006's handleVote; App.tsx has none.
VoteMissingData ==
    variant = "ledger" /\ (~connected \/ proofHash = <<>> \/ projectData = Null)

\* A click on a vote button of the panel, up to the await in handleVote.
VoteClick(isLegitimate, confidenceLevel) ==
    /\ PanelRendered
    /\ ~VoteDisabled
    /\ votes < MaxVotes
    /\ IF VoteMissingData
       THEN UNCHANGED vars
       ELSE /\ userVote' = Some([isLegitimate |-> isLegitimate,
                                 confidence   |-> confidenceLevel])
            /\ isVoting' = TRUE
            /\ votes' = votes + 1
            /\ hist' = [hist EXCEPT
                   !.voteLog = Append(@, DomainKey(projectData[1].domain))]
            /\ lastResult' = "none"
            /\ UNCHANGED <<variant, connected, proofStatus, proofHash,
                           verificationResult, projectData,
                           legitimacyAssessment, projectDomain,
                           analyzedDomains, gens, verifs>>
    /\ UNCHANGED fnvars

\* The timer (App.tsx) or voteOnProject (part_006) resolved.
VoteDone ==
    /\ votes > 0
    /\ proofStatus' = "success"
    /\ isVoting' = FALSE
    /\ votes' = votes - 1
    /\ lastResult' = "none"
    /\ UNCHANGED <<variant, connected, proofHash, verificationResult,
                   projectData, legitimacyAssessment, projectDomain,
                   userVote, analyzedDomains, gens, verifs, hist>>
    /\ UNCHANGED fnvars

\* part_006: voteOnProject rejected.
LedgerVoteFail ==
    /\ variant = "ledger"
    /\ votes > 0
    /\ proofStatus' = "success"     \* "Still set status to success for demo purposes"
    /\ isVoting' = FALSE
    /\ votes' = votes - 1
    /\ lastResult' = "vote_failed"
    /\ UNCHANGED <<variant, connected, proofHash, verificationResult,
                   projectData, legitimacyAssessment, projectDomain,
                   userVote, analyzedDomains, gens, verifs, hist>>
    /\ UNCHANGED fnvars

(***************************************************************************)
(* handleVerifyProof.                                                      *)
(***************************************************************************)
\* The early returns at the head of handleVerifyProof.
VerifyMissingData ==
    \/ proofHash = <<>>
    \/ projectData = Null \/ legitimacyAssessment = Null \/ userVote = Null
    \/ (variant = "ledger" /\ ~connected)

\* isProofValid without the user's vote.
isProofValid_IgnoresVote ==
    /\ legitimacyAssessment[1].isLegitimate
    /\ projectData[1].transparencyScore > 30

\* legitimacyAssessment.isLegitimate && projectData.transparencyScore > 30
\*   && userVote.isLegitimate
isProofValidFor(assessment, data, vote) ==
    /\ assessment.isLegitimate
    /\ data.transparencyScore > 30
    /\ vote.isLegitimate

isProofValid == isProofValidFor(legitimacyAssessment[1], projectData[1], userVote[1])

\* The call up to its await.
handleVerifyProof ==
    IF VerifyMissingData
    THEN UNCHANGED vars
    ELSE /\ proofStatus' = "verifying"
         /\ verifs' = Append(verifs, isProofValid)
         /\ lastResult' = "none"
         /\ UNCHANGED <<variant, connected, proofHash, verificationResult,
                        projectData, legitimacyAssessment, projectDomain,
                        userVote, analyzedDomains, isVoting, gens, votes,
                        hist>>

\* A click on the Verify Proof button.
VerifyClick ==
    /\ ~VerifyDisabled
    /\ Len(verifs) < MaxVerifs
    /\ handleVerifyProof
    /\ UNCHANGED fnvars

\* VerifyDone that sets the status and not the result.
VerifyDone_StatusOnly(i) ==
    /\ i \in 1..Len(verifs)
    /\ proofStatus' = "verification_complete"
    /\ verifs' = RemoveAt(verifs, i)
    /\ lastResult' = "none"
    /\ UNCHANGED <<variant, connected, proofHash, projectData,
                   legitimacyAssessment, projectDomain, userVote,
                   analyzedDomains, isVoting, gens, votes, hist,
                   verificationResult>>
    /\ UNCHANGED fnvars

\* The 1.5 s timer (App.tsx) or verifyProof (part_006) resolved.
VerifyDone(i) ==
    /\ i \in 1..Len(verifs)
    /\ verificationResult' = Some(verifs[i])
    /\ proofStatus' = "verification_complete"
    /\ verifs' = RemoveAt(verifs, i)
    /\ lastResult' = "none"
    /\ UNCHANGED <<variant, connected, proofHash, projectData,
                   legitimacyAssessment, projectDomain, userVote,
                   analyzedDomains, isVoting, gens, votes, hist>>
    /\ UNCHANGED fnvars

\* part_006: verifyProof rejected.
LedgerVerifyFail(i) ==
    /\ variant = "ledger"
    /\ i \in 1..Len(verifs)
    /\ proofStatus' = "error"
    /\ verifs' = RemoveAt(verifs, i)
    /\ lastResult' = "verify_failed"
    /\ UNCHANGED <<variant, connected, proofHash, verificationResult,
                   projectData, legitimacyAssessment, projectDomain,
                   userVote, analyzedDomains, isVoting, gens, votes, hist>>
    /\ UNCHANGED fnvars

(***************************************************************************)
(* "Analyze Another Project".                                              *)
(***************************************************************************)
\* A reset that also forgets the analyzed domains.
ResetAnalyzedDomains_Cleared == {}

\* What the onClick of the reset button leaves in analyzedDomains.
ResetAnalyzedDomains == analyzedDomains

\* The status the onClick of the reset button sets.
ResetStatus_Kept == proofStatus
ResetStatus == "idle"

ResetClick ==
    /\ ResetRendered
    /\ proofStatus' = ResetStatus
    /\ projectData' = Null
    /\ legitimacyAssessment' = Null
    /\ userVote' = Null
    /\ proofHash' = <<>>
    /\ verificationResult' = Null
    /\ projectDomain' = <<>>
    /\ analyzedDomains' = ResetAnalyzedDomains
    /\ isVoting' = FALSE      \* the panel is unmounted with its state
    /\ hist' = [hist EXCEPT !.sawPendingVote = FALSE]
    /\ lastResult' = "none"
    /\ UNCHANGED <<variant, connected, gens, votes, verifs>>
    /\ UNCHANGED fnvars

(***************************************************************************)
(* The session driven through the rendered controls.                       *)
(***************************************************************************)
Next ==
    \/ \E d \in DomainInputs : SetProjectDomain(d)
    \/ WalletConnect
    \/ WalletDisconnect
    \/ GenerateClick
    \/ \E i \in 1..MaxGens, rnd \in RandomBase36 : SimGenerateDone(i, rnd)
    \/ \E i \in 1..MaxGens : LedgerInitDone(i)
    \/ \E i \in 1..MaxGens, o \in ProbeOutcomes : LedgerAnalysisDone(i, o)
    \/ \E i \in 1..MaxGens, digest \in Digests : LedgerHashDone(i, digest)
    \/ \E i \in 1..MaxGens : LedgerSubmitDone(i)
    \/ \E i \in 1..MaxGens : LedgerGenerateFail(i)
    \/ \E l \in BOOLEAN, c \in ConfidenceLevels : VoteClick(l, c)
    \/ VoteDone
    \/ LedgerVoteFail
    \/ VerifyClick
    \/ \E i \in 1..MaxVerifs : VerifyDone(i)
    \/ \E i \in 1..MaxVerifs : LedgerVerifyFail(i)
    \/ ResetClick

Spec == Init /\ [][Next]_vars

(***************************************************************************)
(* The session with generate requests that reach handleGenerateProof with  *)
(* an empty domain or without a wallet: the button is disabled for them,   *)
(* so they are calls of the handler as a function, and its own validation  *)
(* answers them.                                                           *)
(***************************************************************************)
GenerateCall ==
    /\ GenerateDisabled
    /\ GenerateValidation # ""
    /\ handleGenerateProof
    /\ UNCHANGED fnvars

NextHandler == Next \/ GenerateCall

SpecHandler == Init /\ [][NextHandler]_vars

(***************************************************************************)
(* The analysis layer, one function call at a time.  A call is drawn with  *)
(* its argument (and, for the network-assisted analyzer, the outcomes of   *)
(* its requests); the action of the function evaluates it and stores what  *)
(* it returned.  No session runs meanwhile.                                *)
(***************************************************************************)
MaxPieces == 3     \* pieces a text given to cleanDomain is put together from

RECURSIVE Flatten(_)
Flatten(ss) == IF ss = <<>> THEN <<>> ELSE Head(ss) \o Flatten(Tail(ss))

\* Domains given to the string-heuristic analyzer: keywords in either letter
\* case around a middle part.
HeuristicPrefixes ==
    { <<>>,
      <<"n","e","w","-">>,
      <<"t","o","k","e","n">>,
      <<"g","i","t","h","u","b",".">>,
      <<"t","e","s","t">>,
      <<"B","E","T","A">> }
HeuristicMiddles ==
    { <<"s","c","a","m">>,
      <<"S","C","A","M">>,
      <<"F","a","k","e">>,
      <<"p","h","i","s","h","i","n","g">>,
      <<"s","h","o","p">>,
      <<"d","o","c","s">> }
HeuristicSuffixes ==
    { <<>>,
      <<".","o","r","g">>,
      <<"-","a","u","d","i","t">>,
      <<"o","f","f","i","c","i","a","l">> }
HeuristicDomains ==
    { a \o b \o c : a \in HeuristicPrefixes, b \in HeuristicMiddles,
                    c \in HeuristicSuffixes }
    \cup { <<"t","o","t","a","l","l","y","-","a","-","s","c","a","m","-","t","o","k","e","n",".","b","i","z">>,
           <<"g","i","t","h","u","b",".","c","o","m">> }

\* Analysis results given to assessLegitimacy.
AssessScores == {0, 10, 29, 30, 31, 49, 50, 59, 60, 61, 79, 80, 81, 85, 100}
AssessRisks == {0, 3, 5, 6, 7, 8, 10}
AssessInputs ==
    { [ domain            |-> <<"a">>,
        transparencyScore |-> sc,
        riskLevel         |-> rk,
        certificateValid  |-> TRUE,
        metadata |->
          [ hasPublicGithub      |-> gh,
            hasDocumentedRoadmap |-> FALSE,
            hasAuditReports      |-> au,
            hasTeamVerification  |-> FALSE,
            hasTokenEconomics    |-> gh,
            codeReviewScore      |-> 50 ] ] :
      sc \in AssessScores, rk \in AssessRisks, gh \in BOOLEAN, au \in BOOLEAN }

\* Texts given to cleanDomain: up to MaxPieces pieces in a row.
CleanPieces ==
    { <<"h","t","t","p",":","/","/">>,
      <<"h","t","t","p","s",":","/","/">>,
      <<"H","T","T","P",":","/","/">>,
      <<"w","w","w",".">>,
      <<"W","W","W",".">>,
      <<"a",".","i","o">>,
      <<"/">>,
      <<"B">> }
CleanInputs ==
    { Flatten(ps) : ps \in UNION { [1..n -> CleanPieces] : n \in 0..MaxPieces } }

\* Domains given to the network-assisted analyzer.
ServiceDomains ==
    establishedDomains
    \cup { <<"a",".","i","o">>,
      <<"G","o","o","g","l","e",".","c","o","m">>,
      <<"h","t","t","p","s",":","/","/","w","w","w",".","g","i","t","h","u","b",".","c","o","m","/">>,
      <<"s","c","a","m",".","b","i","z">> }

\* The bodies the repository API answers with.
RepoBodies ==
    { [ stargazers_count |-> 0, forks_count |-> 0, updated_at |-> Null,
        license |-> FALSE, description |-> FALSE ],
      [ stargazers_count |-> 1500, forks_count |-> 200, updated_at |-> Some(10),
        license |-> TRUE, description |-> TRUE ] }

\* Outcomes of the requests of analyzeGithubPresence.
GithubOutcomes ==
    { [ known |-> "throws", patterns |-> <<"throws", "throws", "throws">>,
        repo |-> "throws", body |-> b ] : b \in RepoBodies }
    \cup
    { [ known |-> "ok", patterns |-> <<"not_ok", "not_ok", "not_ok">>,
        repo |-> "ok", body |-> b ] : b \in RepoBodies }
    \cup
    { [ known |-> "not_ok", patterns |-> <<"not_ok", "ok", "throws">>,
        repo |-> r, body |-> b ] :
      r \in {"ok", "not_ok"}, b \in {CHOOSE x \in RepoBodies : x.license} }


\* Outcomes of the requests for `paths` in which the first is r and the
\* others are not ok.
FirstThen(paths, r) == [i \in 1..Len(paths) |-> IF i = 1 THEN r ELSE "not_ok"]

\* Outcomes of all the requests of one analyzeProjectTransparency call.
ServiceOutcomes ==
    { [ threw |-> FALSE, tls |-> t, github |-> g,
        roadmap |-> FirstThen(roadmapPaths, r1),
        audit   |-> FirstThen(auditPaths, r2),
        team    |-> FirstThen(teamPaths, r3),
        token   |-> FirstThen(tokenPaths, r4) ] :
      t \in FetchOutcomes, g \in GithubOutcomes, r1 \in FetchOutcomes,
      r2 \in FetchOutcomes, r3 \in FetchOutcomes, r4 \in FetchOutcomes }
    \cup
    { [ threw |-> TRUE, tls |-> "ok", github |-> g,
        roadmap |-> FirstThen(roadmapPaths, "ok"),
        audit   |-> FirstThen(auditPaths, "ok"),
        team    |-> FirstThen(teamPaths, "ok"),
        token   |-> FirstThen(tokenPaths, "ok") ] :
      g \in {CHOOSE x \in GithubOutcomes : x.known = "ok" /\ x.body.license} }

\* The four existence probes and the paths each one requests.
ProbePaths ==
    [ checkForRoadmap          |-> roadmapPaths,
      checkForAuditReports     |-> auditPaths,
      checkForTeamVerification |-> teamPaths,
      checkForTokenEconomics   |-> tokenPaths ]
ProbeNames == DOMAIN ProbePaths
ProbeRevisions == {"transparencyService.ts", "part_008"}
ProbeDomains ==
    { <<"a",".","i","o">>,
      <<"g","i","t","h","u","b",".","c","o","m">>,
      <<"s","o","l","a","n","a",".","c","o","m">> }

\* What the initialize request of initializeAttestationAccount does.
LedgerReplies ==
    { [ kind |-> "ok", tx |-> <<"5","x","Q">>, message |-> Null ],
      [ kind |-> "throws", tx |-> <<>>,
        message |-> Some(<<"A","l","l","o","c","a","t","e",":"," ","a","c","c","o","u","n","t"," ","a","l","r","e","a","d","y"," ","i","n"," ","u","s","e">>) ],
      [ kind |-> "throws", tx |-> <<>>, message |-> Some(<<"A","L","R","E","A","D","Y"," ","I","N"," ","U","S","E">>) ],
      [ kind |-> "throws", tx |-> <<>>, message |-> Some(<<"t","i","m","e","o","u","t">>) ],
      [ kind |-> "throws", tx |-> <<>>, message |-> Null ] }

InitFn ==
    /\ variant = "ledger"
    /\ IdleSession
    /\ ret = Null
    /\ run = Null
    /\ \/ \E d \in HeuristicDomains :
            call = Some([fn |-> "analyzeProjectTransparency", domain |-> d])
       \/ \E r \in AssessInputs :
            call = Some([fn |-> "assessLegitimacy", data |-> r])
       \/ \E d \in CleanInputs :
            call = Some([fn |-> "cleanDomain", domain |-> d])
       \/ \E d \in ServiceDomains, e \in ServiceOutcomes :
            call = Some([fn |-> "transparencyService.analyzeProjectTransparency",
                         domain |-> d, env |-> e])
       \/ \E p \in BOOLEAN, r \in LedgerReplies :
            call = Some([fn |-> "initializeAttestationAccount",
                         program |-> p, reply |-> r])
       \/ \E digest \in Digests :
            call = Some([fn |-> "ledgerPayloads", digest |-> digest])
       \/ \E n \in ProbeNames, v \in ProbeRevisions, d \in ProbeDomains :
            \E rs \in [1..Len(ProbePaths[n]) -> FetchOutcomes] :
               call = Some([fn |-> n, revision |-> v, domain |-> d,
                            outcomes |-> rs])

\* What a call leaves alone: the session, and the call itself.
FnFrame ==
    UNCHANGED <<variant, connected, proofStatus, proofHash, verificationResult,
                projectData, legitimacyAssessment, projectDomain, userVote,
                analyzedDomains, isVoting, gens, votes, verifs, lastResult,
                hist, call, run>>

Pending(fn) == call # Null /\ ret = Null /\ call[1].fn = fn

\* App.tsx: analyzeProjectTransparency(domain), then assessLegitimacy(result)
EvalHeuristic ==
    /\ Pending("analyzeProjectTransparency")
    /\ LET analyzedProjectData == analyzeProjectTransparency(call[1].domain)
       IN  ret' = Some([ data       |-> analyzedProjectData,
                         assessment |-> assessLegitimacy(analyzedProjectData) ])
    /\ FnFrame

EvalAssess ==
    /\ Pending("assessLegitimacy")
    /\ ret' = Some(assessLegitimacy(call[1].data))
    /\ FnFrame

EvalCleanDomain ==
    /\ Pending("cleanDomain")
    /\ ret' = Some(cleanDomain(call[1].domain))
    /\ FnFrame

EvalService ==
    /\ Pending("transparencyService.analyzeProjectTransparency")
    /\ ret' = Some(analyzeProjectTransparencyService(call[1].domain, call[1].env)
                    @@ [ requests |-> analysisRequests(cleanDomain(call[1].domain),
                                                       call[1].env) ])
    /\ FnFrame

\* The probe `name` of `revision`, on `domain`, with the request outcomes rs.
Probe(name, revision, domain, rs) ==
    IF revision = "part_008"
    THEN CASE name = "checkForRoadmap" -> checkForRoadmap_part008(domain, rs)
           [] name = "checkForAuditReports" -> checkForAuditReports_part008(domain, rs)
           [] name = "checkForTeamVerification" -> checkForTeamVerification_part008(domain, rs)
           [] OTHER -> checkForTokenEconomics_part008(domain, rs)
    ELSE CASE name = "checkForRoadmap" -> checkForRoadmap(domain, rs)
           [] name = "checkForAuditReports" -> checkForAuditReports(domain, rs)
           [] name = "checkForTeamVerification" -> checkForTeamVerification(domain, rs)
           [] OTHER -> checkForTokenEconomics(domain, rs)

EvalProbe ==
    /\ call # Null /\ ret = Null /\ call[1].fn \in ProbeNames
    /\ ret' = Some([ kind  |-> "resolved",
                     value |-> Probe(call[1].fn, call[1].revision,
                                     call[1].domain, call[1].outcomes) ])
    /\ FnFrame

EvalInitialize ==
    /\ Pending("initializeAttestationAccount")
    /\ LET result == initializeAttestationAccount(call[1].program, call[1].reply)
       IN  ret' = Some([ result      |-> result,
                         proofStatus |-> StatusAfterInitialize(result) ])
    /\ FnFrame

\* part_006: the hash of one generation and the payloads handleGenerateProof,
\* handleVote and handleVerifyProof build from it.
EvalPayloads ==
    /\ Pending("ledgerPayloads")
    /\ LET hash == generateProofHashFromData(call[1].digest)
       IN  ret' = Some([ hash          |-> hash,
                         submitProject |-> submissionData(hash),
                         voteOnProject |-> voteData(hash),
                         verifyProof   |-> proofVerificationData(hash) ])
    /\ FnFrame

NextFn ==
    \/ EvalHeuristic
    \/ EvalAssess
    \/ EvalCleanDomain
    \/ EvalService
    \/ EvalProbe
    \/ EvalInitialize
    \/ EvalPayloads

SpecFn == InitFn /\ [][NextFn]_vars

(***************************************************************************)
(* One analyzeProjectTransparency call of the network-assisted analyzer,   *)
(* step by step: each awaited sub-call starts when the code calls it and   *)
(* finishes when its promise resolves.                                     *)
(***************************************************************************)
\* The sub-calls handed to Promise.all.
Probes == ProbeNames

SubCallNames == {"fetchTlsCertificate", "analyzeGithubPresence"} \cup Probes

\* Request outcomes of the analyses that are run step by step.
RunOutcomes ==
    { e \in ServiceOutcomes :
        /\ ~e.threw
        /\ e.tls = "ok"
        /\ e.roadmap[1] = e.audit[1] /\ e.audit[1] = e.team[1]
        /\ e.team[1] = e.token[1] /\ e.token[1] # "not_ok" }

RunDomains == ProbeDomains

InitRun ==
    /\ variant = "ledger"
    /\ IdleSession
    /\ ret = Null
    /\ \E d \in RunDomains, e \in RunOutcomes :
          call = Some([fn |-> "transparencyService.analyzeProjectTransparency",
                       domain |-> d, env |-> e])
    /\ run = Some([pc |-> "called", started |-> {}, finished |-> {}])

\* The session and the call stay as they are while the analysis runs.
RunFrame ==
    UNCHANGED <<variant, connected, proofStatus, proofHash, verificationResult,
                projectData, legitimacyAssessment, projectDomain, userVote,
                analyzedDomains, isVoting, gens, votes, verifs, lastResult,
                hist, call>>

\* Promise.all with a race in its place: one finished probe is enough.
allSettled_Race(finished) == finished \cap Probes # {}

\* `await Promise.all([...])` resumes: every probe has finished.
allSettled(finished) == Probes \subseteq finished

\* const certInfo = await this.fetchTlsCertificate(cleanDomain): the call.
RunCallCertificate ==
    /\ run # Null /\ run[1].pc = "called"
    /\ run' = Some([run[1] EXCEPT !.pc = "certificate",
                                  !.started = @ \cup {"fetchTlsCertificate"}])
    /\ UNCHANGED ret
    /\ RunFrame

\* fetchTlsCertificate resolved; the next statement calls
\* analyzeGithubPresence and awaits it.
RunCertificateDone ==
    /\ run # Null /\ run[1].pc = "certificate"
    /\ run' = Some([run[1] EXCEPT !.pc = "github",
                                  !.finished = @ \cup {"fetchTlsCertificate"},
                                  !.started = @ \cup {"analyzeGithubPresence"}])
    /\ UNCHANGED ret
    /\ RunFrame

\* analyzeGithubPresence resolved; the next statement calls the four probes
\* in one array and awaits Promise.all of them.
RunGithubDone ==
    /\ run # Null /\ run[1].pc = "github"
    /\ run' = Some([run[1] EXCEPT !.pc = "probes",
                                  !.finished = @ \cup {"analyzeGithubPresence"},
                                  !.started = @ \cup Probes])
    /\ UNCHANGED ret
    /\ RunFrame

\* One of the probes resolved.
RunProbeDone(p) ==
    /\ run # Null /\ run[1].pc = "probes"
    /\ p \in run[1].started \ run[1].finished
    /\ run' = Some([run[1] EXCEPT !.finished = @ \cup {p}])
    /\ UNCHANGED ret
    /\ RunFrame

\* Promise.all resolved: the scores are computed and the result returned.
RunScore ==
    /\ run # Null /\ run[1].pc = "probes"
    /\ allSettled(run[1].finished)
    /\ run' = Some([run[1] EXCEPT !.pc = "returned"])
    /\ ret' = Some(analyzeProjectTransparencyService(call[1].domain, call[1].env)
                    @@ [ requests |-> analysisRequests(cleanDomain(call[1].domain),
                                                       call[1].env) ])
    /\ RunFrame

NextRun ==
    \/ RunCallCertificate
    \/ RunCertificateDone
    \/ RunGithubDone
    \/ \E p \in Probes : RunProbeDone(p)
    \/ RunScore

SpecRun == InitRun /\ [][NextRun]_vars

(***************************************************************************)
(* Properties of the session.                                              *)
(***************************************************************************)

\* C1: the status is verification_complete only if, earlier in the same
\* analysis round, the status was pending_vote and a vote was cast.
C1_CompleteOnlyAfterPendingVote ==
    proofStatus = "verification_complete" =>
        (hist.sawPendingVote /\ userVote # Null)

\* C1 restricted to the App.tsx revision, where it holds.
C1_SimCompleteOnlyAfterPendingVote ==
    variant = "sim" => C1_CompleteOnlyAfterPendingVote

\* C2 as stated: the status changes to generating only from idle, with a
\* non-empty domain whose key is not in the analyzed-domain set.
C2_GeneratingOnlyFromIdle ==
    [][(proofStatus' = "generating" /\ proofStatus # "generating") =>
          /\ proofStatus = "idle"
          /\ trim(projectDomain) # <<>>
          /\ toLowerCase(trim(projectDomain)) \notin analyzedDomains]_vars

\* C2 amended: the status changes to generating only from idle or error, with
\* a connected wallet, no vote cast, a non-empty domain whose key is not in
\* the analyzed-domain set; never from pending_vote, success, verifying or
\* verification_complete.
C2_GeneratingOnlyFromIdleOrError ==
    [][(proofStatus' = "generating" /\ proofStatus # "generating") =>
          /\ proofStatus \in {"idle", "error"}
          /\ connected
          /\ userVote = Null
          /\ trim(projectDomain) # <<>>
          /\ toLowerCase(trim(projectDomain)) \notin analyzedDomains]_vars

\* An analysis that was started from the error status is running.
C2_Witness ==
    /\ proofStatus = "generating"
    /\ hist.startedFrom = "error"
    /\ gens # <<>>
\* No two votes of the session went to the same domain.
NoSecondVote ==
    \A i, j \in 1..Len(hist.voteLog) :
        i # j => hist.voteLog[i] # hist.voteLog[j]

C4_NoReanalysis ==
    /\ \A i, j \in 1..Len(hist.submitted) :
          i # j => toLowerCase(trim(hist.submitted[i]))
                     # toLowerCase(trim(hist.submitted[j]))
    /\ analyzedDomains =
          { toLowerCase(trim(hist.submitted[i])) : i \in 1..Len(hist.submitted) }
    /\ Cardinality(analyzedDomains) = Len(hist.submitted)
    /\ \A k \in analyzedDomains : k = toLowerCase(k) /\ k = trim(k)

\* After the reset, another spelling of an analyzed domain is in the field and
\* the generate button is disabled for it.
C4_Witness ==
    /\ proofStatus = "idle"
    /\ connected
    /\ userVote = Null
    /\ \E i \in 1..Len(hist.submitted) :
          /\ hist.submitted[i] # projectDomain
          /\ toLowerCase(trim(hist.submitted[i])) = toLowerCase(trim(projectDomain))
    /\ GenerateDisabled

\* C5: in status verifying or verification_complete a vote is cast, the proof
\* identifier is non-empty and the analysis result and assessment are present.
C5_VerifyNeedsVoteAndProof ==
    proofStatus \in {"verifying", "verification_complete"} =>
        /\ userVote # Null
        /\ proofHash # <<>>
        /\ projectData # Null
        /\ legitimacyAssessment # Null

\* A verification is running.
C5_Witness ==
    /\ proofStatus = "verifying"
    /\ verifs # <<>>
    /\ userVote # Null

\* A step that clears one of the cells the reset clears.
ClearsSessionCell ==
    \/ projectData # Null /\ projectData' = Null
    \/ legitimacyAssessment # Null /\ legitimacyAssessment' = Null
    \/ userVote # Null /\ userVote' = Null
    \/ proofHash # <<>> /\ proofHash' = <<>>
    \/ verificationResult # Null /\ verificationResult' = Null

\* C6: the reset happens only in verification_complete; it sets the status to
\* idle, clears the analysis result, the assessment, the vote, the proof
\* identifier, the verification result and the domain field, and leaves the
\* analyzed-domain set as it was.
C6_ResetFrame ==
    [][ClearsSessionCell =>
          /\ proofStatus = "verification_complete"
          /\ proofStatus' = "idle"
          /\ projectData' = Null
          /\ legitimacyAssessment' = Null
          /\ userVote' = Null
          /\ proofHash' = <<>>
          /\ verificationResult' = Null
          /\ projectDomain' = <<>>
          /\ analyzedDomains' = analyzedDomains]_vars

\* The session was reset after a vote: idle and cleared, the set kept.
C6_Witness ==
    /\ proofStatus = "idle"
    /\ hist.voteLog # <<>>
    /\ userVote = Null
    /\ projectData = Null
    /\ proofHash = <<>>
    /\ verificationResult = Null
    /\ projectDomain = <<>>
    /\ analyzedDomains # {}
\* A handleGenerateProof call that fails the handler's validation: the domain
\* is empty or whitespace-only, or (part_006) the wallet is not connected.
RejectedGenerateRequest ==
    /\ \/ trim(projectDomain) = <<>>
       \/ (variant = "ledger" /\ ~connected)
    /\ (GenerateClick \/ GenerateCall)

FreshDomainText == <<"n","e","x","t">>

\* With the wallet connected and no handler suspended, no control is enabled,
\* whatever is typed into the domain field.
NothingEnabled ==
    /\ connected
    /\ gens = <<>> /\ votes = 0 /\ verifs = <<>>
    /\ \A d \in DomainInputs \cup {FreshDomainText} : GenerateDisabledFor(d)
    /\ (~PanelRendered \/ VoteDisabled)
    /\ VerifyDisabled
    /\ ~ResetRendered

\* C8: no reachable error state has the generate, vote, verify and reset
\* actions all disabled for every domain input.
C8_ErrorIsResumable ==
    proofStatus = "error" => ~NothingEnabled

\* A ledger submission of the part_006 revision rejects.
LedgerSubmissionRejects ==
    \/ \E i \in 1..Len(gens) : gens[i].pc = "submit" /\ LedgerGenerateFail(i)
    \/ LedgerVoteFail
    \/ \E i \in 1..Len(verifs) : LedgerVerifyFail(i)

\* C9: whenever submitProject, voteOnProject or verifyProof rejects, the
\* session status becomes error.
C9_RejectionSetsError ==
    [][LedgerSubmissionRejects => proofStatus' = "error"]_vars

\* C10: at every moment at most one handleGenerateProof run is in flight.
C10_OneAnalysisInFlight ==
    Len(gens) <= 1

\* C10 restricted to the App.tsx revision, where it holds.
C10_SimOneAnalysisInFlight ==
    variant = "sim" => C10_OneAnalysisInFlight

\* C11: a verification result of true is only ever shown next to a vote of
\* isLegitimate = TRUE: whenever the cast vote is isLegitimate = FALSE and the
\* verification has completed, verificationResult is FALSE, whatever the
\* assessment's legitimacy flag and the transparency score are.
C11_ValidRequiresLegitimateVote ==
    /\ (proofStatus = "verification_complete" /\ userVote # Null
          /\ ~userVote[1].isLegitimate)
         => verificationResult = Some(FALSE)
    /\ verificationResult = Some(TRUE)
         => (userVote # Null /\ userVote[1].isLegitimate)
    /\ \A i \in 1..Len(verifs) :
         verifs[i] => (userVote # Null /\ userVote[1].isLegitimate)

\* A project assessed legitimate with a score above 30 was voted suspicious,
\* and its verification completed with the result false.
C11_Witness ==
    /\ proofStatus = "verification_complete"
    /\ userVote # Null /\ ~userVote[1].isLegitimate
    /\ legitimacyAssessment # Null /\ legitimacyAssessment[1].isLegitimate
    /\ projectData # Null /\ projectData[1].transparencyScore > 30
    /\ verificationResult = Some(FALSE)

(***************************************************************************)
(* Properties of the analysis layer.                                       *)
(***************************************************************************)

\* The heuristic analysis of a domain has returned.
HeuristicReturned ==
    call # Null /\ ret # Null /\ call[1].fn = "analyzeProjectTransparency"

\* The text contains "scam", "fake" or "phishing" in some letter case.
NamesAScam(domain) ==
    LET d == toLowerCase(domain)
    IN  \/ includes(d, <<"s","c","a","m">>)
        \/ includes(d, <<"f","a","k","e">>)
        \/ includes(d, <<"p","h","i","s","h","i","n","g">>)

\* C12: the string-heuristic analysis of a domain that contains "scam", "fake"
\* or "phishing" in any letter case has riskLevel 10, transparencyScore 10 and
\* all five metadata flags false, and its assessment is not legitimate with
\* the SUSPICIOUS recommendation.
C12_ScamDomainsAreSuspicious ==
    (HeuristicReturned /\ NamesAScam(call[1].domain)) =>
        LET r == ret[1]
        IN  /\ r.data.riskLevel = 10
            /\ r.data.transparencyScore = 10
            /\ ~r.data.metadata.hasPublicGithub
            /\ ~r.data.metadata.hasDocumentedRoadmap
            /\ ~r.data.metadata.hasAuditReports
            /\ ~r.data.metadata.hasTeamVerification
            /\ ~r.data.metadata.hasTokenEconomics
            /\ ~r.assessment.isLegitimate
            /\ r.assessment.overallRecommendation =
                 "SUSPICIOUS - Multiple risk factors detected, proceed with caution"

\* Scenario B, "totally-a-scam-token.biz", has been analyzed: it also holds the
\* keyword "token".
C12_Witness ==
    /\ HeuristicReturned
    /\ call[1].domain = <<"t","o","t","a","l","l","y","-","a","-","s","c","a","m",
                          "-","t","o","k","e","n",".","b","i","z">>
    /\ ret[1].data.transparencyScore = 10
    /\ ret[1].data.riskLevel = 10

\* A call of the network-assisted analyzer has returned.
ServiceReturned ==
    /\ call # Null /\ ret # Null
    /\ call[1].fn = "transparencyService.analyzeProjectTransparency"

\* Every request of the call threw.
AllRequestsThrew(env) ==
    /\ env.tls = "throws"
    /\ env.github.known = "throws"
    /\ \A i \in 1..Len(env.github.patterns) : env.github.patterns[i] = "throws"
    /\ env.roadmap[1] = "throws" /\ env.audit[1] = "throws"
    /\ env.team[1] = "throws" /\ env.token[1] = "throws"

\* C13: for every domain of the established-company list and every
\* combination of request outcomes (each request ok, not ok or throwing), the
\* network-assisted analyzer resolves with transparencyScore >= 85.
C13_EstablishedScoreAtLeast85 ==
    (ServiceReturned /\ call[1].domain \in establishedDomains
       /\ ~call[1].env.threw) =>
        /\ ret[1].kind = "resolved"
        /\ ret[1].value.transparencyScore >= 85

\* An established domain was analyzed while every request threw.
C13_Witness ==
    /\ ServiceReturned
    /\ call[1].domain = <<"a","m","a","z","o","n",".","c","o","m">>
    /\ ~call[1].env.threw
    /\ AllRequestsThrew(call[1].env)
    /\ ~ret[1].value.metadata.hasPublicGithub
    /\ ret[1].value.transparencyScore >= 85

\* assessLegitimacy has returned for an analysis result.
AssessReturned ==
    call # Null /\ ret # Null /\ call[1].fn = "assessLegitimacy"

\* C14: the confidenceScore of an assessment equals the transparencyScore of
\* the analysis result it was made from.
C14_ConfidenceIsTransparencyScore ==
    /\ AssessReturned =>
         ret[1].confidenceScore = call[1].data.transparencyScore
    /\ HeuristicReturned =>
         ret[1].assessment.confidenceScore = ret[1].data.transparencyScore

\* A result with a high risk level and a middling score was assessed.
C14_Witness ==
    /\ AssessReturned
    /\ call[1].data.transparencyScore = 59
    /\ call[1].data.riskLevel = 8
    /\ ret[1].confidenceScore = 59

\* s holds the text f.
Holds(s, f) == \E i \in 1..Len(s) : s[i] = f

\* C15: isLegitimate is false exactly when riskLevel > 7 or
\* transparencyScore < 30; the missing-repository rule (score < 50) and the
\* missing-audit rule (risk > 5) add their factor to riskFactors exactly when
\* they apply and leave isLegitimate alone.
C15_LegitimacyRules ==
    AssessReturned =>
        LET d == call[1].data
            a == ret[1]
        IN  /\ a.isLegitimate = ~(d.riskLevel > 7 \/ d.transparencyScore < 30)
            /\ Holds(a.riskFactors, "No public code repository")
                 = (~d.metadata.hasPublicGithub /\ d.transparencyScore < 50)
            /\ Holds(a.riskFactors, "No security audits found")
                 = (~d.metadata.hasAuditReports /\ d.riskLevel > 5)
            /\ Holds(a.riskFactors, "High risk level detected") = (d.riskLevel > 7)
            /\ Holds(a.riskFactors, "Low transparency score")
                 = (d.transparencyScore < 30)

\* A result to which both soft rules apply, and only they, was assessed
\* legitimate with exactly their two factors.
C15_Witness ==
    /\ AssessReturned
    /\ call[1].data.transparencyScore = 31
    /\ call[1].data.riskLevel = 6
    /\ ~call[1].data.metadata.hasPublicGithub
    /\ ~call[1].data.metadata.hasAuditReports
    /\ ret[1].isLegitimate
    /\ ret[1].riskFactors =
         <<"No public code repository", "No security audits found">>

\* The four recommendation tiers.
Tiers ==
    [ highly   |-> "HIGHLY LEGITIMATE - Strong transparency indicators with minimal risk factors",
      likely   |-> "LIKELY LEGITIMATE - Good transparency indicators with some areas for improvement",
      possibly |-> "POSSIBLY LEGITIMATE - Some transparency indicators but requires further verification",
      suspicious |-> "SUSPICIOUS - Multiple risk factors detected, proceed with caution" ]

BandsOf(score) ==
    (IF score >= 80 THEN {Tiers.highly} ELSE {})
    \cup (IF score >= 60 /\ score <= 80 THEN {Tiers.likely} ELSE {})
    \cup (IF score >= 30 /\ score <= 60 THEN {Tiers.possibly} ELSE {})
    \cup (IF score < 30 THEN {Tiers.suspicious} ELSE {})

CleanReturned == call # Null /\ ret # Null /\ call[1].fn = "cleanDomain"

\* C18: cleanDomain is idempotent: cleaning a cleaned domain changes nothing,
\* for inputs with an upper-case scheme or WWW prefix, a repeated prefix or
\* several trailing slashes as well.
C18_CleanDomainIdempotent ==
    CleanReturned => cleanDomain(ret[1]) = ret[1]

\* C18 for inputs in lower case with at most one scheme, one www. prefix and
\* one trailing slash, in that order, where it holds.
C18_CleanDomainIdempotentOnPlainUrls ==
    (CleanReturned /\ call[1].domain \in
        { s \o w \o <<"a", ".", "i", "o">> \o t :
            s \in {<<>>, <<"h","t","t","p",":","/","/">>, <<"h","t","t","p","s",":","/","/">>},
            w \in {<<>>, <<"w","w","w",".">>},
            t \in {<<>>, <<"/">>} })
      => cleanDomain(ret[1]) = ret[1]

\* C19: the network-assisted analyzer always resolves with a result, whatever
\* its requests do; when an exception reaches its top-level catch, the result
\* is the fallback: transparencyScore 50, riskLevel 5 and all five
\* transparency flags false.
C19_AnalyzerResolvesWithFallback ==
    ServiceReturned =>
        /\ ret[1].kind = "resolved"
        /\ call[1].env.threw =>
              /\ ret[1].value.transparencyScore = 50
              /\ ret[1].value.riskLevel = 5
              /\ ~ret[1].value.metadata.hasPublicGithub
              /\ ~ret[1].value.metadata.hasDocumentedRoadmap
              /\ ~ret[1].value.metadata.hasAuditReports
              /\ ~ret[1].value.metadata.hasTeamVerification
              /\ ~ret[1].value.metadata.hasTokenEconomics

\* An exception reached the top-level catch of a call for an established
\* domain, and the call resolved with the fallback score.
C19_Witness ==
    /\ ServiceReturned
    /\ call[1].env.threw
    /\ call[1].domain = <<"g","i","t","h","u","b",".","c","o","m">>
    /\ ret[1].kind = "resolved"
    /\ ret[1].value.transparencyScore = 50
    /\ ret[1].value.domain = call[1].domain

\* One of the four existence probes has returned.
ProbeReturned == call # Null /\ ret # Null /\ call[1].fn \in ProbeNames

\* No request of the probe got an ok response: each threw or was not ok.
NoRequestOk(rs) == \A i \in 1..Len(rs) : rs[i] # "ok"

\* C20: each existence probe (roadmap, audit reports, team verification,
\* token economics) on a domain outside the allow-list resolves, never
\* rejects, and resolves with false when its requests threw or got non-ok
\* responses.
C20_ProbeFailureMeansAbsent ==
    (ProbeReturned /\ ~isEstablishedCompany(call[1].domain)) =>
        /\ ret[1].kind = "resolved"
        /\ NoRequestOk(call[1].outcomes) => ~ret[1].value

\* C20 for the probes of the earlier revision (part_008), which test
\* response.ok, and for a thrown first request in either revision: there it
\* holds.
C20_ProbeFailureMeansAbsentWhereItHolds ==
    (ProbeReturned /\ ~isEstablishedCompany(call[1].domain)
        /\ (call[1].revision = "part_008" \/ call[1].outcomes[1] = "throws")) =>
        /\ ret[1].kind = "resolved"
        /\ NoRequestOk(call[1].outcomes) => ~ret[1].value

\* The score and the risk level of an analysis result are in their ranges.
InRange(data) ==
    /\ data.transparencyScore \in 0..100
    /\ data.riskLevel \in 0..10

\* C21: every result of the string-heuristic analyzer, of the network-assisted
\* analyzer and of its fallback has transparencyScore in 0..100 and riskLevel
\* in 0..10, for every domain and every combination of request outcomes.
C21_ScoresInRange ==
    /\ HeuristicReturned => InRange(ret[1].data)
    /\ ServiceReturned => InRange(ret[1].value)

\* A domain outside the allow-list whose repository has 1500 stars and whose
\* four probes all found their page: the sum of the points is above 100 and
\* the result holds 100.
C21_Witness ==
    /\ ServiceReturned
    /\ ~call[1].env.threw
    /\ call[1].domain = <<"a",".","i","o">>
    /\ ret[1].value.metadata.hasPublicGithub
    /\ ret[1].value.metadata.codeReviewScore = 100
    /\ ret[1].value.metadata.hasDocumentedRoadmap
    /\ ret[1].value.metadata.hasAuditReports
    /\ ret[1].value.metadata.hasTeamVerification
    /\ ret[1].value.metadata.hasTokenEconomics
    /\ ret[1].value.transparencyScore = 100

(***************************************************************************)
(* Properties of the ledger calls.                                          *)
(***************************************************************************)
InitializeReturned ==
    call # Null /\ ret # Null /\ call[1].fn = "initializeAttestationAccount"

\* The request was rejected with a message that contains "already in use".
AlreadyInUse(reply) ==
    /\ reply.kind = "throws"
    /\ reply.message # Null
    /\ includes(reply.message[1],
                <<"a","l","r","e","a","d","y"," ","i","n"," ","u","s","e">>)

\* C22: with the program set, initializeAttestationAccount resolves with
\* "already-initialized" when the ledger rejects with 'already in use', and
\* the generation that awaited it is not moved to error; every other failure
\* of the request is rethrown with its own error.
C22_AlreadyInUseIsSuccess ==
    (InitializeReturned /\ call[1].program) =>
        /\ AlreadyInUse(call[1].reply) =>
              /\ ret[1].result.kind = "resolved"
              /\ ret[1].result.value =
                   <<"a","l","r","e","a","d","y","-",
                     "i","n","i","t","i","a","l","i","z","e","d">>
              /\ ret[1].proofStatus # "error"
        /\ (call[1].reply.kind = "throws" /\ ~AlreadyInUse(call[1].reply)) =>
              /\ ret[1].result.kind = "rejected"
              /\ ret[1].result.error = call[1].reply.message
              /\ ret[1].proofStatus = "error"

\* The ledger rejected the initialization with 'already in use' and the call
\* resolved.
C22_Witness ==
    /\ InitializeReturned
    /\ call[1].program
    /\ AlreadyInUse(call[1].reply)
    /\ ret[1].result.kind = "resolved"
    /\ ret[1].proofStatus = "generating"

PayloadsReturned ==
    call # Null /\ ret # Null /\ call[1].fn = "ledgerPayloads"

\* C23: every domain-hash and proof-hash payload handed to submitProject,
\* voteOnProject and verifyProof is an array of exactly 32 bytes.
C23_HashPayloadsAre32Bytes ==
    PayloadsReturned =>
        /\ Len(ret[1].submitProject.domainHash) = 32
        /\ Len(ret[1].submitProject.certificateValidityHash) = 32
        /\ Len(ret[1].voteOnProject.domainHash) = 32
        /\ Len(ret[1].verifyProof.domainHash) = 32
        /\ Len(ret[1].verifyProof.proofHash) = 32

\* What holds instead: each of these payloads is the 16 character codes of
\* the 16-character hash, each code a byte.
C23_HashPayloadsAre16Bytes ==
    PayloadsReturned =>
        \A payload \in { ret[1].submitProject.domainHash,
                         ret[1].submitProject.certificateValidityHash,
                         ret[1].voteOnProject.domainHash,
                         ret[1].verifyProof.domainHash,
                         ret[1].verifyProof.proofHash } :
            /\ Len(payload) = 16
            /\ Len(ret[1].hash) = 16
            /\ \A i \in 1..16 : payload[i] = charCodeAt(ret[1].hash[i])
            /\ \A i \in 1..16 : payload[i] \in 0..255

(***************************************************************************)
(* Properties of the requests of one analysis.                             *)
(***************************************************************************)
\* C24: within one analysis no URL is requested a second time, for every
\* domain and every outcome of the earlier requests.
C24_NoUrlRequestedTwice ==
    (ServiceReturned /\ ~call[1].env.threw) =>
        \A i, j \in 1..Len(ret[1].requests) :
            i # j => ret[1].requests[i] # ret[1].requests[j]

\* The URL is one of the repository API.
IsRepoUrl(url) ==
    LET api == repoUrl(<<>>)
    IN  Len(url) >= Len(api) /\ SubSeq(url, 1, Len(api)) = api

\* What holds instead: the certificate check and the path probes are
\* requested once each; only requests to the repository API are repeated.
C24_OnlyRepositoryUrlsRepeat ==
    (ServiceReturned /\ ~call[1].env.threw) =>
        \A i, j \in 1..Len(ret[1].requests) :
            (i # j /\ ret[1].requests[i] = ret[1].requests[j]) =>
                IsRepoUrl(ret[1].requests[i])

(***************************************************************************)
(* Properties of the order of the sub-calls of one analysis.               *)
(***************************************************************************)
Running == run # Null

\* C25 as stated: the certificate check, the repository lookup and the four
\* path probes are issued concurrently, none waiting for another to finish
\* before it starts (when one has finished, all of them have started), and
\* the scores are computed only after all of them have finished.
C25_AllSubCallsConcurrent ==
    Running =>
        /\ run[1].finished # {} => run[1].started = SubCallNames
        /\ ret # Null => run[1].finished = SubCallNames

\* C25 amended: the repository lookup starts only after the certificate check
\* has finished and the probes start only after the repository lookup has
\* finished; the four probes are issued together (when one of them has
\* finished, all four have started); the scores are computed only after all
\* six sub-calls have finished.
C25_SequentialThenProbesConcurrent ==
    Running =>
        /\ "analyzeGithubPresence" \in run[1].started
             => "fetchTlsCertificate" \in run[1].finished
        /\ run[1].started \cap Probes # {}
             => "analyzeGithubPresence" \in run[1].finished
        /\ run[1].finished \cap Probes # {} => Probes \subseteq run[1].started
        /\ ret # Null => run[1].finished = SubCallNames

\* Two probes are in flight while a third has finished, and the certificate
\* check and the repository lookup finished before them.
C25_Witness ==
    /\ Running
    /\ ret = Null
    /\ "checkForAuditReports" \in run[1].finished
    /\ {"checkForRoadmap", "checkForTeamVerification"}
         \subseteq (run[1].started \ run[1].finished)
    /\ {"fetchTlsCertificate", "analyzeGithubPresence"} \subseteq run[1].finished

(***************************************************************************)
(* Further properties of the session.                                      *)
(***************************************************************************)
\* C26: the key of a domain is in the analyzed-domain set from the start of
\* its generation: when a generation fails into error its key is in the set,
\* the set never loses a key, and a generate request is accepted only for a
\* domain whose key is not in the set.
C26_FailedDomainStaysAnalyzed ==
    [][ /\ \A i \in 1..Len(gens) :
              LedgerGenerateFail(i) => DomainKey(gens[i].dom) \in analyzedDomains'
        /\ analyzedDomains \subseteq analyzedDomains'
        /\ lastResult' = "accepted" => DomainKey(projectDomain) \notin analyzedDomains
      ]_vars

\* After a failed generation the wallet is connected, nothing is in flight,
\* no vote is stored, and the Generate button is disabled for the domain in
\* the field because its key is in the set.
C26_Witness ==
    /\ variant = "ledger"
    /\ proofStatus = "error"
    /\ connected
    /\ gens = <<>>
    /\ userVote = Null
    /\ projectData = Null
    /\ trim(projectDomain) # <<>>
    /\ DomainKey(projectDomain) \in analyzedDomains
    /\ GenerateDisabled

\* C27: in the ledger-backed revision, from the moment a vote is stored until
\* verification has computed isValid, the stored analysis result and its
\* assessment do not change; the verification that is computed uses the
\* result the vote was cast on.
C27_VoteAndVerifyOnSameResult ==
    [][ variant = "ledger" =>
          /\ (userVote # Null /\ userVote' # Null /\ verifs = <<>>
                 /\ verificationResult = Null) =>
                /\ projectData' = projectData
                /\ legitimacyAssessment' = legitimacyAssessment
          /\ (Len(verifs') > Len(verifs)) =>
                hist.voteLog[Len(hist.voteLog)] = DomainKey(projectData[1].domain)
      ]_vars

\* A verification is in flight that combined a vote cast on one domain's
\* result with the result and assessment of another domain.
C27_VerifiedOnOtherResult ==
    /\ variant = "ledger"
    /\ verifs # <<>>
    /\ hist.voteLog # <<>>
    /\ hist.voteLog[Len(hist.voteLog)] # DomainKey(projectData[1].domain)

\* C28: in the simulated App (App.tsx), verificationResult is non-null exactly
\* when the status is verification_complete.
C28_ResultIffVerificationComplete ==
    variant = "sim" =>
        (verificationResult # Null <=> proofStatus = "verification_complete")

\* The simulated App has completed a verification and holds its result.
C28_Witness ==
    /\ variant = "sim"
    /\ proofStatus = "verification_complete"
    /\ verificationResult = Some(TRUE)
    /\ userVote # Null

(***************************************************************************)
(* Further properties of the analysis layer.                               *)
(***************************************************************************)
\* C29: in the string-heuristic variant a domain is assessed not legitimate
\* exactly when it contains "scam", "fake" or "phishing"; for every other
\* domain riskLevel is at most 7 and transparencyScore at least 50, and the
\* verification of its result is valid exactly when the vote is legitimate.
C29_OnlyScamNamesAreNotLegitimate ==
    HeuristicReturned =>
        /\ ~ret[1].assessment.isLegitimate <=> NamesAScam(call[1].domain)
        /\ ~NamesAScam(call[1].domain) =>
              /\ ret[1].data.riskLevel <= 7
              /\ ret[1].data.transparencyScore >= 50
              /\ \A l \in BOOLEAN :
                    isProofValidFor(ret[1].assessment, ret[1].data,
                                    [isLegitimate |-> l, confidence |-> 10]) = l

\* A domain with "new" and no scam word: risk level 7, score 50, assessed
\* legitimate.
C29_Witness ==
    /\ HeuristicReturned
    /\ call[1].domain = <<"n","e","w","-","s","h","o","p">>
    /\ ret[1].data.riskLevel = 7
    /\ ret[1].data.transparencyScore = 50
    /\ ret[1].assessment.isLegitimate

\* C30: scoring and probing agree on whether a domain is established: for
\* every input whose cleaned form contains an allow-listed domain, the
\* result has the established baseline, transparencyScore >= 85 and
\* riskLevel <= 4.
C30_ScoringAgreesWithProbes ==
    (ServiceReturned /\ ~call[1].env.threw
        /\ isEstablishedCompany(cleanDomain(call[1].domain))) =>
        /\ ret[1].value.transparencyScore >= 85
        /\ ret[1].value.riskLevel <= 4

\* C30 for inputs that contain an allow-listed domain as they are typed,
\* where it holds.
C30_ScoringAgreesWithProbesOnRawMatch ==
    (ServiceReturned /\ ~call[1].env.threw
        /\ isEstablishedCompany(call[1].domain)) =>
        /\ isEstablishedCompany(cleanDomain(call[1].domain))
        /\ ret[1].value.transparencyScore >= 85
        /\ ret[1].value.riskLevel <= 4

\* "Google.com" analyzed while every request threw: the probes answered from
\* the allow-list, the score was computed without the baseline.
C30_UpperCaseInputScoredWithoutBaseline ==
    /\ ServiceReturned /\ ~call[1].env.threw
    /\ call[1].domain = <<"G","o","o","g","l","e",".","c","o","m">>
    /\ AllRequestsThrew(call[1].env)
    /\ ret[1].value.metadata.hasDocumentedRoadmap
    /\ ret[1].value.metadata.hasTeamVerification
    /\ ret[1].value.transparencyScore = 35
    /\ ret[1].value.riskLevel = 3

====
